---- MODULE Spec2Model ----
(***************************************************************************)
(* Model of the position registry of the trading engine                    *)
(* (src/position_manager.py), of the exit monitor thread                   *)
(* (src/exit_monitor.py) and of the scan flow of the main thread           *)
(* (src/main.py), which share the in-memory position table and its JSON    *)
(* state file.                                                             *)
(*                                                                         *)
(* Arithmetic.  Prices are integers.  The rates of config.py are kept in   *)
(* percent (STOP_LOSS_RATE = -0.10 is -10), and a price that the code      *)
(* obtains by multiplying with (1 + rate) is kept in hundredths of a price *)
(* unit: stop_loss_price = entry_price * (100 + STOP_LOSS_RATE).  A        *)
(* comparison  current_price <= stop_loss_price  of the code is            *)
(* current_price * 100 <= stop_loss_price  here.  This is the exact        *)
(* rational value of the code's expressions; the rounding of binary        *)
(* floating point is not modelled.                                         *)
(***************************************************************************)
EXTENDS Integers, FiniteSets, Sequences, TLC

VARIABLES
    positions,      \* PositionManager._positions: ticker -> Position (a dict)
    file,           \* positions.json: [state, data]
    scan_pc,        \* where the main thread is inside scan_and_trade
    scan_order,     \* the order of the candidate being bought / opened
    scan_data,      \* `data` of the _save call running in the main thread
    mon_pc,         \* where the ExitMonitor thread is inside its tick
    mon_todo,       \* positions of the tick's snapshot not yet visited
    mon_cur,        \* pos.ticker of the loop variable `pos`
    mon_price,      \* current_price of the loop body
    mon_reason,     \* reason returned by check_exit
    mon_exit_price, \* exit_price returned by sell_fn (NoPrice for None)
    mon_data,       \* `data` of the _save call running in the monitor thread
    mon_log,        \* history of the running tick: the positions it skipped
                    \* for want of a price, the sell_fn call and the summary
                    \* of close_position of the running loop iteration
    sc,             \* one scan_and_trade call with its leaders loop
    fed,            \* history: per open Position object, the largest price
                    \* among its initial peak and the prices check_exit got
    stop_event,     \* main._stop_event (threading.Event)
    ox,             \* one OrderExecutor and the call running in it
    sz,             \* one calc_position_size call: arguments and result
    fn,             \* one call of a function of the decision core (scoring,
                    \* ranking, to_dict / from_dict): name, arguments, result
    boot            \* the start of the process: the configuration and how
                    \* far the import of main.py and main() have come

vars == <<positions, file, scan_pc, scan_order, scan_data, mon_pc, mon_todo,
          mon_cur, mon_price, mon_reason, mon_exit_price, mon_data, mon_log, sc,
          fed, stop_event, ox, sz, fn, boot>>

(***************************************************************************)
(* Bounds of the model.                                                    *)
(***************************************************************************)
MaxPrice == 12

Tickers == {"KRW-BTC", "KRW-ETH"}
Prices == 9..MaxPrice          \* prices the market data provider reports
EntryPrices == {10, 11}        \* entry["entry_price"] of a candidate
Amounts == {5500}              \* size_krw of a buy, at least MIN_ORDER_KRW

NoTicker == "-"
NoPrice == 0

(***************************************************************************)
(* config.py, in percent.                                                  *)
(***************************************************************************)
STOP_LOSS_RATE == -10
TRAILING_STOP_RATE == -10
TRAILING_ACTIVATION_RATE == 5
MAX_CONCURRENT_POSITIONS == 5
MIN_ORDER_KRW == 5000
MAX_SINGLE_POSITION_RATIO == 20   \* percent
MAX_INVESTED_RATIO == 80          \* percent
MAX_RISK_PER_TRADE == 2           \* percent

EmptyTable == [t \in {} |-> 0]
NoOrder == [ticker |-> NoTicker, price |-> NoPrice, quantity |-> 0, amount_krw |-> 0]

(***************************************************************************)
(* Position (dataclass) and its methods.                                   *)
(***************************************************************************)
\* a slip of sign in the stop-loss price of a new position
NewPosition_SignSlip(entry_price, quantity, invested_krw) ==
    [entry_price     |-> entry_price,
     quantity        |-> quantity,
     invested_krw    |-> invested_krw,
     stop_loss_price |-> entry_price * (100 - STOP_LOSS_RATE),
     peak_price      |-> entry_price,
     trailing_active |-> FALSE]

NewPosition(entry_price, quantity, invested_krw) ==
    [entry_price     |-> entry_price,
     quantity        |-> quantity,
     invested_krw    |-> invested_krw,
     stop_loss_price |-> entry_price * (100 + STOP_LOSS_RATE),
     peak_price      |-> entry_price,
     trailing_active |-> FALSE]

\* the activation one point of gain early
GainReached_Early(pos, current_price) ==
    current_price * 100 - pos.entry_price * 100
        >= pos.entry_price * (TRAILING_ACTIVATION_RATE - 1)

GainReached(pos, current_price) ==
    current_price * 100 - pos.entry_price * 100
        >= pos.entry_price * TRAILING_ACTIVATION_RATE

\* the peak follows the price instead of its maximum
update_peak_FollowsPrice(pos, current_price) ==
    [pos EXCEPT
        !.peak_price = current_price,
        !.trailing_active = IF ~pos.trailing_active
                            THEN GainReached(pos, current_price)
                            ELSE pos.trailing_active]

\* trailing_active is recomputed on every call instead of latched
update_peak_Unlatched(pos, current_price) ==
    [pos EXCEPT
        !.peak_price = IF current_price > pos.peak_price
                       THEN current_price ELSE pos.peak_price,
        !.trailing_active = GainReached(pos, current_price)]

update_peak(pos, current_price) ==
    [pos EXCEPT
        !.peak_price = IF current_price > pos.peak_price
                       THEN current_price ELSE pos.peak_price,
        !.trailing_active = IF ~pos.trailing_active
                            THEN GainReached(pos, current_price)
                            ELSE pos.trailing_active]

\* the trailing stop measured from the entry price instead of the peak
trailing_stop_price_FromEntry(pos) == pos.entry_price * (100 + TRAILING_STOP_RATE)

trailing_stop_price(pos) == pos.peak_price * (100 + TRAILING_STOP_RATE)

\* the trailing stop tested before the fixed stop-loss
exit_reason_TrailingFirst(pos, current_price) ==
    IF pos.trailing_active /\ current_price * 100 <= trailing_stop_price(pos)
    THEN "trailing-stop"
    ELSE IF current_price * 100 <= pos.stop_loss_price
         THEN "stop-loss"
         ELSE "none"

\* check_exit's result, computed on the position after update_peak
exit_reason(pos, current_price) ==
    IF current_price * 100 <= pos.stop_loss_price
    THEN "stop-loss"
    ELSE IF pos.trailing_active /\ current_price * 100 <= trailing_stop_price(pos)
         THEN "trailing-stop"
         ELSE "none"

(***************************************************************************)
(* The dict operations of PositionManager.                                 *)
(***************************************************************************)
has_position(t) == t \in DOMAIN positions
\* full only above the limit
is_full_Above == Cardinality(DOMAIN positions) > MAX_CONCURRENT_POSITIONS
is_full == Cardinality(DOMAIN positions) >= MAX_CONCURRENT_POSITIONS

Insert(table, t, pos) ==
    [x \in DOMAIN table \cup {t} |-> IF x = t THEN pos ELSE table[x]]
Pop(table, t) == [x \in DOMAIN table \ {t} |-> table[x]]

\* _load: a missing file leaves the table empty; so does a file json.load
\* cannot parse (the except branch)
Load(f) == IF f.state = "ok" THEN f.data ELSE EmptyTable

Peaks(table) == [t \in DOMAIN table |-> table[t].peak_price]

(***************************************************************************)
(* OrderExecutor and calc_position_size have specifications of their own   *)
(* (SpecOrder, SpecSize); here are their states before any call.           *)
(***************************************************************************)
NoRequest == [side |-> "-", ticker |-> NoTicker, price |-> NoPrice,
              quantity |-> 0, amount_krw |-> 0]
\* no OrderResult yet
NoResult == [success |-> FALSE, ticker |-> NoTicker, side |-> "-", price |-> NoPrice,
             quantity |-> 0, amount_krw |-> 0, order_id |-> "-", error |-> "-",
             dry_run |-> FALSE]
NoCall == [req |-> NoRequest, result |-> NoResult]

\* an OrderExecutor of a process with CONFIG.DRY_RUN = dry_run, no call running
OxIdle(dry_run) ==
    [dry_run  |-> dry_run,
     pc       |-> "idle",
     req      |-> NoRequest,
     attempt  |-> 0,          \* `attempt` of _retry's loop
     outcomes |-> << >>,      \* history: what the gateway answered, per submission
     delays   |-> << >>,      \* history: the time.sleep calls of the call
     last_err |-> "-",
     result   |-> NoResult,
     prev     |-> NoCall]     \* history: the call before this one

\* nothing sold, nothing closed, nothing skipped
NoSell == [ticker |-> NoTicker, quantity |-> 0, current_price |-> NoPrice]
NoSummary == [ticker |-> NoTicker, entry_price |-> 0, exit_price |-> 0, pnl_rate |-> 0,
              pnl_krw |-> 0, invested_krw |-> 0, peak_price |-> 0, reason |-> "none"]
NoLog == [skipped |-> EmptyTable, sell |-> NoSell, summary |-> NoSummary]

\* the main thread is in main's loop, not in scan_and_trade
\* (start_balance is history: krw_balance as the call read it)
NoScan == [pc |-> "idle", leaders |-> << >>, total_portfolio |-> 0, krw_balance |-> 0,
           start_balance |-> 0, entered |-> 0, order |-> NoRequest, result |-> NoResult]

\* no call of a function of the decision core yet
NoFn == [name |-> "-", arg |-> << >>, result |-> << >>]
\* config.py as shipped, with DRY_RUN and the keys of the environment
NoConfig == [DRY_RUN |-> TRUE, UPBIT_ACCESS_KEY |-> FALSE, UPBIT_SECRET_KEY |-> FALSE,
             api_answers |-> TRUE, STOP_LOSS_RATE |-> -10,
             MAX_CONCURRENT_POSITIONS |-> 5]
\* main.py is not being started
NoBoot == [pc |-> "-", config |-> NoConfig, monitor_started |-> FALSE, scans |-> 0,
           orders |-> 0]

NoSizing == [pc |-> "idle", ticker |-> NoTicker, current_price |-> 0, atr |-> 0,
             total_portfolio_krw |-> 0, combined_confidence |-> 0, result |-> 0]

(***************************************************************************)
(* Initial state: first start of the process, no state file.               *)
(***************************************************************************)
Init ==
    /\ positions = EmptyTable
    /\ file = [state |-> "missing", data |-> EmptyTable]
    /\ scan_pc = "idle"
    /\ scan_order = NoOrder
    /\ scan_data = EmptyTable
    /\ mon_pc = "idle"
    /\ mon_todo = {}
    /\ mon_cur = NoTicker
    /\ mon_price = NoPrice
    /\ mon_reason = "none"
    /\ mon_exit_price = NoPrice
    /\ mon_data = EmptyTable
    /\ mon_log = NoLog
    /\ sc = NoScan
    /\ fed = EmptyTable
    /\ stop_event = FALSE
    /\ ox = OxIdle(TRUE)
    /\ sz = NoSizing
    /\ fn = NoFn
    /\ boot = NoBoot

scan_vars == <<scan_pc, scan_order, scan_data>>
mon_vars == <<mon_pc, mon_todo, mon_cur, mon_price, mon_reason, mon_exit_price, mon_data,
              mon_log>>

\* round(n / d, 0) of Python 3 for n >= 0: to the nearest, ties to even
round(n, d) ==
    LET q == n \div d
        r == n % d
    IN  IF 2 * r < d THEN q
        ELSE IF 2 * r > d THEN q + 1
        ELSE IF q % 2 = 0 THEN q ELSE q + 1

\* round(n / d, 0) for any sign of n (d > 0)
round_signed(n, d) == IF n >= 0 THEN round(n, d) ELSE 0 - round(0 - n, d)

\* close_position: the summary of the popped position.  pnl_rate is
\* round(pnl_rate * 100, 2), kept here in hundredths (1000 is 10.00);
\* pnl_krw is round(invested_krw * pnl_rate, 0); hold_hours is left out
close_summary(pos, ticker, exit_price, reason) ==
    [ticker |-> ticker, entry_price |-> pos.entry_price, exit_price |-> exit_price,
     pnl_rate |-> round_signed(10000 * (exit_price - pos.entry_price), pos.entry_price),
     pnl_krw |-> round_signed(pos.invested_krw * (exit_price - pos.entry_price),
                              pos.entry_price),
     invested_krw |-> pos.invested_krw, peak_price |-> pos.peak_price,
     reason |-> reason]

\* sell_fn called with the money invested in place of the quantity held
sell_args_Invested(pos, ticker, current_price) ==
    [ticker |-> ticker, quantity |-> pos.invested_krw, current_price |-> current_price]

\* run_exit_monitor: sell_fn(pos.ticker, pos.quantity, current_price)
sell_args(pos, ticker, current_price) ==
    [ticker |-> ticker, quantity |-> pos.quantity, current_price |-> current_price]

\* run_exit_monitor: actual_price = exit_price if exit_price else current_price
actual_price(exit_price, current_price) ==
    IF exit_price # NoPrice THEN exit_price ELSE current_price

\* OrderExecutor.buy: est_qty = amount_krw / current_price (the amounts of
\* the model are multiples of its entry prices, so the quotient is exact)
est_qty(amount_krw, current_price) ==
    IF current_price > 0 THEN amount_krw \div current_price ELSE 0

(***************************************************************************)
(* Main thread: scan_and_trade, one candidate of the leaders loop.  The    *)
(* thread is at "idle" in main's loop or in scan_and_trade outside         *)
(* executor.buy and open_position.  When the main thread ends, the process *)
(* exits (the monitor is a daemon thread): scan_pc then tells why,         *)
(* "exit_stopped", "exit_save_error" or "exit_tick_error".                 *)
(***************************************************************************)
\* the buy of a candidate whose ticker may be held already
ScanSubmitBuy_NoHeldTest(t, price, amount_krw) ==
    /\ scan_pc = "idle"
    /\ ~is_full
    /\ amount_krw >= MIN_ORDER_KRW
    /\ scan_pc' = "buy"
    /\ scan_order' = [ticker |-> t, price |-> price,
                      quantity |-> est_qty(amount_krw, price),
                      amount_krw |-> amount_krw]
    /\ UNCHANGED <<positions, file, scan_data, mon_vars, fed>>
    /\ UNCHANGED <<stop_event, ox, sz, fn, sc, boot>>

\* the candidate passed is_full / has_position, scoring and sizing; the buy
\* is submitted (executor.buy is a network call in live mode)
ScanSubmitBuy(t, price, amount_krw) ==
    /\ scan_pc = "idle"
    /\ ~is_full
    /\ ~has_position(t)
    /\ amount_krw >= MIN_ORDER_KRW
    /\ scan_pc' = "buy"
    /\ scan_order' = [ticker |-> t, price |-> price,
                      quantity |-> est_qty(amount_krw, price),
                      amount_krw |-> amount_krw]
    /\ UNCHANGED <<positions, file, scan_data, mon_vars, fed>>
    /\ UNCHANGED <<stop_event, ox, sz, fn, sc, boot>>

\* the buy returns; on success open_position builds the Position and stores
\* it in the dict
ScanBuyReturns(success) ==
    /\ scan_pc = "buy"
    /\ IF success
       THEN /\ positions' = Insert(positions, scan_order.ticker,
                                   NewPosition(scan_order.price, scan_order.quantity,
                                               scan_order.amount_krw))
            /\ fed' = Insert(fed, scan_order.ticker, scan_order.price)
            /\ scan_pc' = "save_data"
            /\ UNCHANGED scan_order
       ELSE /\ scan_pc' = "idle"
            /\ scan_order' = NoOrder
            /\ UNCHANGED <<positions, fed>>
    /\ UNCHANGED <<file, scan_data, mon_vars>>
    /\ UNCHANGED <<stop_event, ox, sz, fn, sc, boot>>

\* _save runs without any lock, so the other thread may run between its
\* statements.  Line 1: data = {t: p.to_dict() ...}
ScanSaveData ==
    /\ scan_pc = "save_data"
    /\ scan_data' = positions
    /\ scan_pc' = "save_open"
    /\ UNCHANGED <<positions, file, scan_order, mon_vars, fed>>
    /\ UNCHANGED <<stop_event, ox, sz, fn, sc, boot>>

\* _save, line 2: open(STATE_FILE, "w") truncates the file
ScanSaveOpen ==
    /\ scan_pc = "save_open"
    /\ file' = [state |-> "partial", data |-> EmptyTable]
    /\ scan_pc' = "save_write"
    /\ UNCHANGED <<positions, scan_order, scan_data, mon_vars, fed>>
    /\ UNCHANGED <<stop_event, ox, sz, fn, sc, boot>>

\* _save, line 3 and the end of the with block: the text reaches the file
ScanSaveWrite ==
    /\ scan_pc = "save_write"
    /\ file' = [state |-> "ok", data |-> scan_data]
    /\ scan_pc' = "idle"
    /\ scan_order' = NoOrder
    /\ scan_data' = EmptyTable
    /\ UNCHANGED <<positions, mon_vars, fed>>
    /\ UNCHANGED <<stop_event, ox, sz, fn, sc, boot>>

(***************************************************************************)
(* ExitMonitor thread: one tick of run_exit_monitor.  The thread is at     *)
(* "idle" in the while condition or in stop_event.wait, at "caught" in the *)
(* except clause of the tick, at "ended" after the loop; "killed" is the   *)
(* daemon thread of a process that has exited.                             *)
(***************************************************************************)
\* positions = get_all_positions(), not empty.  _fetch_prices returns one
\* price, or none, per ticker, and the loop reads each entry once: the
\* model draws that entry when the loop reaches the position
\* (MonNoPrice, MonCheckExit).  The loop visits the snapshot in dict
\* order; the model allows any order.
MonTickStarts ==
    /\ mon_pc = "idle"
    /\ ~stop_event
    /\ DOMAIN positions # {}
    /\ mon_todo' = DOMAIN positions
    /\ mon_pc' = "loop"
    /\ mon_log' = NoLog
    /\ UNCHANGED <<positions, file, scan_vars, mon_cur, mon_price, mon_reason,
                   mon_exit_price, mon_data, fed>>
    /\ UNCHANGED <<stop_event, ox, sz, fn, sc, boot>>

\* a missing price handled as an error that closes the position
MonNoPrice_Drops(t) ==
    /\ mon_pc = "loop"
    /\ t \in mon_todo
    /\ mon_todo' = mon_todo \ {t}
    /\ mon_log' = [skipped |-> IF has_position(t)
                                THEN Insert(mon_log.skipped, t, positions[t])
                                ELSE mon_log.skipped,
                    sell |-> NoSell, summary |-> NoSummary]
    /\ positions' = Pop(positions, t)
    /\ fed' = Pop(fed, t)
    /\ UNCHANGED <<file, scan_vars, mon_pc, mon_cur, mon_price,
                   mon_reason, mon_exit_price, mon_data>>
    /\ UNCHANGED <<stop_event, ox, sz, fn, sc, boot>>

\* prices.get(pos.ticker) is None: the position is skipped
MonNoPrice(t) ==
    /\ mon_pc = "loop"
    /\ t \in mon_todo
    /\ mon_todo' = mon_todo \ {t}
    /\ mon_log' = [skipped |-> IF has_position(t)
                                THEN Insert(mon_log.skipped, t, positions[t])
                                ELSE mon_log.skipped,
                    sell |-> NoSell, summary |-> NoSummary]
    /\ UNCHANGED <<positions, file, scan_vars, mon_pc, mon_cur, mon_price,
                   mon_reason, mon_exit_price, mon_data, fed>>
    /\ UNCHANGED <<stop_event, ox, sz, fn, sc, boot>>

\* reason = check_exit(pos, current_price); with a reason, sell_fn is called
MonCheckExit(t, current_price) ==
    /\ mon_pc = "loop"
    /\ t \in mon_todo
    /\ has_position(t)
    /\ LET pos == update_peak(positions[t], current_price)
           reason == exit_reason(pos, current_price)
       IN /\ positions' = [positions EXCEPT ![t] = pos]
          /\ fed' = [fed EXCEPT ![t] = IF current_price > @ THEN current_price ELSE @]
          /\ mon_reason' = reason
          /\ mon_pc' = IF reason = "none" THEN "loop" ELSE "sell"
          /\ mon_log' = [mon_log EXCEPT
                            !.sell = IF reason = "none" THEN NoSell
                                     ELSE sell_args(pos, t, current_price),
                            !.summary = NoSummary]
    /\ mon_todo' = mon_todo \ {t}
    /\ mon_cur' = t
    /\ mon_price' = current_price
    /\ mon_exit_price' = NoPrice   \* not read before sell_fn assigns it again
    /\ UNCHANGED <<file, scan_vars, mon_data>>
    /\ UNCHANGED <<stop_event, ox, sz, fn, sc, boot>>

\* sell_fn returns result.price (the requested price) or None;
\* actual_price = exit_price if exit_price else current_price;
\* close_position pops the ticker
MonSellReturns(success) ==
    /\ mon_pc = "sell"
    /\ mon_exit_price' = IF success THEN mon_price ELSE NoPrice
    /\ IF has_position(mon_cur)
       THEN /\ positions' = Pop(positions, mon_cur)
            /\ fed' = Pop(fed, mon_cur)
            /\ mon_pc' = "save_data"
            /\ mon_log' = [mon_log EXCEPT !.summary =
                              close_summary(positions[mon_cur], mon_cur,
                                            actual_price(mon_exit_price', mon_price),
                                            mon_reason)]
       ELSE /\ mon_pc' = "loop"
            /\ UNCHANGED <<positions, fed, mon_log>>
    /\ UNCHANGED <<file, scan_vars, mon_todo, mon_cur, mon_price, mon_reason, mon_data>>
    /\ UNCHANGED <<stop_event, ox, sz, fn, sc, boot>>

MonSaveData ==
    /\ mon_pc = "save_data"
    /\ mon_data' = positions
    /\ mon_pc' = "save_open"
    /\ UNCHANGED <<positions, file, scan_vars, mon_todo, mon_cur, mon_price,
                   mon_reason, mon_exit_price, mon_log, fed>>
    /\ UNCHANGED <<stop_event, ox, sz, fn, sc, boot>>

MonSaveOpen ==
    /\ mon_pc = "save_open"
    /\ file' = [state |-> "partial", data |-> EmptyTable]
    /\ mon_pc' = "save_write"
    /\ UNCHANGED <<positions, scan_vars, mon_todo, mon_cur, mon_price,
                   mon_reason, mon_exit_price, mon_data, mon_log, fed>>
    /\ UNCHANGED <<stop_event, ox, sz, fn, sc, boot>>

MonSaveWrite ==
    /\ mon_pc = "save_write"
    /\ file' = [state |-> "ok", data |-> mon_data]
    /\ mon_pc' = "loop"
    /\ mon_data' = EmptyTable
    /\ UNCHANGED <<positions, scan_vars, mon_todo, mon_cur, mon_price,
                   mon_reason, mon_exit_price, mon_log, fed>>
    /\ UNCHANGED <<stop_event, ox, sz, fn, sc, boot>>

\* the for loop is over: stop_event.wait(...), next tick
MonTickEnds ==
    /\ mon_pc = "loop"
    /\ mon_todo = {}
    /\ mon_pc' = "idle"
    /\ mon_cur' = NoTicker
    /\ mon_price' = NoPrice
    /\ mon_reason' = "none"
    /\ mon_exit_price' = NoPrice
    /\ mon_log' = NoLog
    /\ UNCHANGED <<positions, file, scan_vars, mon_todo, mon_data, fed>>
    /\ UNCHANGED <<stop_event, ox, sz, fn, sc, boot>>

(***************************************************************************)
(* Exceptions and the end of the process.                                  *)
(***************************************************************************)
ExitStates == {"exit_stopped", "exit_save_error", "exit_tick_error"}

\* main.py has no try around scan_and_trade, schedule.run_pending or
\* open_position: an exception of a scan tick leaves main()
scan_tick_is_wrapped == FALSE

\* the monitor's tick without its try / except
mon_tick_is_wrapped_No == FALSE

\* exit_monitor.py wraps the body of a tick in try / except Exception
mon_tick_is_wrapped == TRUE

\* the process exits: the threads and their locals are gone; positions is
\* kept as the table the process had when it stopped
ProcessExits(why) ==
    /\ scan_pc' = why
    /\ scan_order' = NoOrder
    /\ scan_data' = EmptyTable
    /\ mon_pc' = "killed"
    /\ mon_todo' = {}
    /\ mon_cur' = NoTicker
    /\ mon_price' = NoPrice
    /\ mon_reason' = "none"
    /\ mon_exit_price' = NoPrice
    /\ mon_data' = EmptyTable
    /\ mon_log' = NoLog
    /\ stop_event' = FALSE
    /\ UNCHANGED <<positions, file, fed, ox, sz, fn, sc, boot>>

\* where the main thread goes when a scan tick raised
ScanAfterException(why) ==
    IF scan_tick_is_wrapped
    THEN /\ scan_pc' = "idle"
         /\ scan_order' = NoOrder
         /\ scan_data' = EmptyTable
         /\ UNCHANGED <<positions, file, mon_vars, fed, stop_event, ox, sz, fn, sc, boot>>
    ELSE ProcessExits(why)

\* _save raises in open_position (open or write fail with OSError): the
\* file keeps what it holds at that point
ScanSaveRaises ==
    /\ scan_pc \in {"save_open", "save_write"}
    /\ ScanAfterException("exit_save_error")

\* another call of the tick raises (pyupbit.get_tickers in
\* scan_market_leaders, compute_entry_score on a short series, ...)
ScanTickRaises ==
    /\ scan_pc = "idle"
    /\ ScanAfterException("exit_tick_error")

\* a call of the monitor's tick raises (check_exit, sell_fn, or _save in
\* close_position): the except clause logs it
MonTickRaises ==
    /\ \/ mon_pc = "loop" /\ mon_todo # {}
       \/ mon_pc \in {"sell", "save_open", "save_write"}
    /\ mon_pc' = IF mon_tick_is_wrapped THEN "caught" ELSE "ended"
    /\ mon_todo' = {}
    /\ mon_cur' = NoTicker
    /\ mon_price' = NoPrice
    /\ mon_reason' = "none"
    /\ mon_exit_price' = NoPrice
    /\ mon_data' = EmptyTable
    /\ mon_log' = NoLog
    /\ UNCHANGED <<positions, file, scan_vars, fed, stop_event, ox, sz, fn, sc, boot>>

\* after the except clause: stop_event.wait(...), then the while condition
MonResumes ==
    /\ mon_pc = "caught"
    /\ mon_pc' = "idle"
    /\ UNCHANGED <<positions, file, scan_vars, mon_todo, mon_cur, mon_price,
                   mon_reason, mon_exit_price, mon_data, mon_log, fed, stop_event,
                   ox, sz, fn, sc, boot>>

\* _on_signal: SIGINT / SIGTERM set the event
SignalStop ==
    /\ scan_pc \notin ExitStates
    /\ ~stop_event
    /\ stop_event' = TRUE
    /\ UNCHANGED <<positions, file, scan_vars, mon_vars, fed, ox, sz, fn, sc, boot>>

\* while not stop_event.is_set() is false: the monitor returns
MonEnds ==
    /\ mon_pc = "idle"
    /\ stop_event
    /\ mon_pc' = "ended"
    /\ UNCHANGED <<positions, file, scan_vars, mon_todo, mon_cur, mon_price,
                   mon_reason, mon_exit_price, mon_data, mon_log, fed, stop_event,
                   ox, sz, fn, sc, boot>>

\* while not _stop_event.is_set() is false: main returns
MainStops ==
    /\ scan_pc = "idle"
    /\ stop_event
    /\ ProcessExits("exit_stopped")

(***************************************************************************)
(* The process stops (crash, kill) and is started again:                   *)
(* position_mgr = PositionManager() runs _load on what the file holds.     *)
(***************************************************************************)
Restart ==
    /\ positions' = Load(file)
    /\ fed' = Peaks(Load(file))
    /\ scan_pc' = "idle"
    /\ scan_order' = NoOrder
    /\ scan_data' = EmptyTable
    /\ mon_pc' = "idle"
    /\ mon_todo' = {}
    /\ mon_cur' = NoTicker
    /\ mon_price' = NoPrice
    /\ mon_reason' = "none"
    /\ mon_exit_price' = NoPrice
    /\ mon_data' = EmptyTable
    /\ mon_log' = NoLog
    /\ stop_event' = FALSE
    /\ UNCHANGED <<file, ox, sz, fn, sc, boot>>

Next ==
    \/ \E t \in Tickers, p \in EntryPrices, a \in Amounts : ScanSubmitBuy(t, p, a)
    \/ \E ok \in BOOLEAN : ScanBuyReturns(ok)
    \/ ScanSaveData
    \/ ScanSaveOpen
    \/ ScanSaveWrite
    \/ MonTickStarts
    \/ \E t \in Tickers : MonNoPrice(t)
    \/ \E t \in Tickers, p \in Prices : MonCheckExit(t, p)
    \/ \E ok \in BOOLEAN : MonSellReturns(ok)
    \/ MonSaveData
    \/ MonSaveOpen
    \/ MonSaveWrite
    \/ MonTickEnds
    \/ Restart

Spec == Init /\ [][Next]_vars

(***************************************************************************)
(* The same two threads with what can end a tick or the process: the       *)
(* exceptions, the stop signal and the exit.  One entry price and the      *)
(* prices around its thresholds keep this specification small.             *)
(***************************************************************************)
FaultEntryPrices == {10}
FaultPrices == {9, 11}

NextFaults ==
    \/ \E t \in Tickers, p \in FaultEntryPrices, a \in Amounts : ScanSubmitBuy(t, p, a)
    \/ \E ok \in BOOLEAN : ScanBuyReturns(ok)
    \/ ScanSaveData
    \/ ScanSaveOpen
    \/ ScanSaveWrite
    \/ MonTickStarts
    \/ \E t \in Tickers : MonNoPrice(t)
    \/ \E t \in Tickers, p \in FaultPrices : MonCheckExit(t, p)
    \/ \E ok \in BOOLEAN : MonSellReturns(ok)
    \/ MonSaveData
    \/ MonSaveOpen
    \/ MonSaveWrite
    \/ MonTickEnds
    \/ ScanSaveRaises
    \/ ScanTickRaises
    \/ MonTickRaises
    \/ MonResumes
    \/ SignalStop
    \/ MonEnds
    \/ MainStops
    \/ Restart

SpecFaults == Init /\ [][NextFaults]_vars


(***************************************************************************)
(* OrderExecutor (order_executor.py): one buy or sell call at a time.      *)
(* ox.pc is "idle" (no call), "attempt" (_retry is about to submit          *)
(* attempt number ox.attempt), "failed" (in the except clause of that      *)
(* attempt) or "done" (the call has its OrderResult and is returning).     *)
(* A response of the gateway is the uuid it carries, "no-uuid" for a       *)
(* response without one (None, an error payload) or "raise" for a call     *)
(* that raises.                                                            *)
(***************************************************************************)
MAX_RETRIES == 3
BASE_DELAY == 1

Uuids == {"u1", "u2"}
Faults == {"no-uuid", "raise"}
Responses == Uuids \cup Faults

OrderAmounts == {4000, 5500}   \* amount_krw of a buy
OrderQuantities == {400, 550}  \* quantity of a sell
OrderPrices == {10, 11}        \* current_price of a call

\* _retry: range(1, _MAX_RETRIES + 1) with one attempt too many
retry_range_OneMore == 1..(MAX_RETRIES + 1)

\* _retry: range(1, _MAX_RETRIES + 1)
retry_range == 1..MAX_RETRIES

\* _retry: a delay that starts at twice the base
backoff_delay_Doubled(attempt) == BASE_DELAY * 2^attempt

\* _retry: delay = _BASE_DELAY * 2 ** (attempt - 1)
backoff_delay(attempt) == BASE_DELAY * 2^(attempt - 1)

\* f"비정상 응답: {resp}" or the exception of the gateway, then
\* f"주문 최종 실패 ({_MAX_RETRIES}회): {last_err}"
final_error(last_err) == "final failure (3): " \o last_err

order_result(success, req, quantity, order_id, error, dry_run) ==
    [success |-> success, ticker |-> req.ticker, side |-> req.side,
     price |-> req.price, quantity |-> quantity, amount_krw |-> req.amount_krw,
     order_id |-> order_id, error |-> error, dry_run |-> dry_run]

\* buy: the OrderResult of an amount below CONFIG.MIN_ORDER_KRW
rejected(req) == order_result(FALSE, req, 0, "-", "below minimum order", FALSE)

\* the synthetic result without the requested quantity
dry_run_result_NoQuantity(req) ==
    order_result(TRUE, req, 0, "dry-run-" \o req.side, "-", TRUE)

\* buy / sell: the OrderResult of the CONFIG.DRY_RUN branch
dry_run_result(req) ==
    order_result(TRUE, req, req.quantity, "dry-run-" \o req.side, "-", TRUE)

\* _retry: the OrderResult of a response with a uuid
retry_succeeded(req, uuid) == order_result(TRUE, req, req.quantity, uuid, "-", FALSE)

\* the final result without the last error
retry_exhausted_NoCause(req, last_err) ==
    order_result(FALSE, req, req.quantity, "-", "final failure (3): ", FALSE)

\* _retry: the OrderResult after the loop
retry_exhausted(req, last_err) ==
    order_result(FALSE, req, req.quantity, "-", final_error(last_err), FALSE)

main_vars == <<positions, file, scan_pc, scan_order, scan_data, mon_pc, mon_todo,
               mon_cur, mon_price, mon_reason, mon_exit_price, mon_data, mon_log,
               fed, stop_event>>

\* OrderExecutor.buy up to its return or the first line of _retry
buy(ticker, amount_krw, current_price) ==
    LET req == [side |-> "buy", ticker |-> ticker, price |-> current_price,
                quantity |-> est_qty(amount_krw, current_price),
                amount_krw |-> amount_krw]
    IN  /\ ox.pc = "idle"
        /\ ox' = IF amount_krw < MIN_ORDER_KRW
                   THEN [ox EXCEPT !.pc = "done", !.req = req, !.result = rejected(req)]
                 ELSE IF ox.dry_run
                   THEN [ox EXCEPT !.pc = "done", !.req = req,
                                   !.result = dry_run_result(req)]
                 ELSE [ox EXCEPT !.pc = "attempt", !.req = req, !.attempt = 1]
        /\ UNCHANGED <<main_vars, sz, fn, sc, boot>>

\* OrderExecutor.sell up to its return or the first line of _retry
sell(ticker, quantity, current_price) ==
    LET req == [side |-> "sell", ticker |-> ticker, price |-> current_price,
                quantity |-> quantity, amount_krw |-> quantity * current_price]
    IN  /\ ox.pc = "idle"
        /\ ox' = IF ox.dry_run
                   THEN [ox EXCEPT !.pc = "done", !.req = req,
                                   !.result = dry_run_result(req)]
                 ELSE [ox EXCEPT !.pc = "attempt", !.req = req, !.attempt = 1]
        /\ UNCHANGED <<main_vars, sz, fn, sc, boot>>

\* _retry: the try block of one attempt; resp is what the gateway does
retry_submit(resp) ==
    /\ ox.pc = "attempt"
    /\ ox' = IF resp \in Uuids
               THEN [ox EXCEPT !.pc = "done",
                               !.outcomes = Append(@, resp),
                               !.result = retry_succeeded(ox.req, resp)]
               ELSE [ox EXCEPT !.pc = "failed",
                               !.outcomes = Append(@, resp),
                               !.last_err = resp]
    /\ UNCHANGED <<main_vars, sz, fn, sc, boot>>

\* _retry: the rest of the except clause, then the loop's next attempt or
\* the statements after the loop
retry_backoff ==
    /\ ox.pc = "failed"
    /\ LET slept == IF ox.attempt < MAX_RETRIES
                      THEN Append(ox.delays, backoff_delay(ox.attempt))
                      ELSE ox.delays
       IN  ox' = IF ox.attempt + 1 \in retry_range
                   THEN [ox EXCEPT !.pc = "attempt", !.delays = slept,
                                   !.attempt = @ + 1]
                   ELSE [ox EXCEPT !.pc = "done", !.delays = slept,
                                   !.result = retry_exhausted(ox.req, ox.last_err)]
    /\ UNCHANGED <<main_vars, sz, fn, sc, boot>>

\* the caller has the OrderResult; the executor is ready for the next call
order_returns ==
    /\ ox.pc = "done"
    /\ ox' = [OxIdle(ox.dry_run) EXCEPT !.prev = [req |-> ox.req, result |-> ox.result]]
    /\ UNCHANGED <<main_vars, sz, fn, sc, boot>>

\* a process in simulation mode or in live mode
InitOrder ==
    /\ positions = EmptyTable
    /\ file = [state |-> "missing", data |-> EmptyTable]
    /\ scan_pc = "idle"
    /\ scan_order = NoOrder
    /\ scan_data = EmptyTable
    /\ mon_pc = "idle"
    /\ mon_todo = {}
    /\ mon_cur = NoTicker
    /\ mon_price = NoPrice
    /\ mon_reason = "none"
    /\ mon_exit_price = NoPrice
    /\ mon_data = EmptyTable
    /\ mon_log = NoLog
    /\ sc = NoScan
    /\ fed = EmptyTable
    /\ stop_event = FALSE
    /\ \E dry_run \in BOOLEAN : ox = OxIdle(dry_run)
    /\ sz = NoSizing
    /\ fn = NoFn
    /\ boot = NoBoot

NextOrder ==
    \/ \E t \in Tickers, a \in OrderAmounts, p \in OrderPrices : buy(t, a, p)
    \/ \E t \in Tickers, q \in OrderQuantities, p \in OrderPrices : sell(t, q, p)
    \/ \E resp \in Responses : retry_submit(resp)
    \/ retry_backoff
    \/ order_returns

SpecOrder == InitOrder /\ [][NextOrder]_vars

(***************************************************************************)
(* PositionManager.calc_position_size (position_manager.py).  Amounts are  *)
(* rationals: atr_pct is a pair <<numerator, denominator>>, and the three  *)
(* candidates of the minimum are integers over the common denominator      *)
(* Scale(pct) = 10000 * pct[1] (ratios are in percent, the multiplier is   *)
(* in percent).  The result is in whole units, as round(size, 0) gives.    *)
(* The binary rounding of the float operations is not modelled.            *)
(***************************************************************************)
SizeTickers == {"KRW-BTC", "KRW-ETH", "KRW-XRP", "KRW-SOL", "KRW-ADA", "KRW-DOGE"}
HeldOrder == <<"KRW-BTC", "KRW-ETH", "KRW-XRP", "KRW-SOL", "KRW-ADA">>
SizeInvested == {5000, 6500}           \* invested_krw of the open positions
SizeTotals == {25000, 25003, 40000, 40002}   \* total_portfolio_krw
SizePrices == {0, 20}                  \* current_price
SizeAtrs == {0, 1, 2}                  \* atr
SizeConfidences == {70, 75, 80, 85}    \* combined_confidence

RECURSIVE total_invested(_)
\* sum(p.invested_krw for p in self._positions.values())
total_invested(table) ==
    IF DOMAIN table = {} THEN 0
    ELSE LET t == CHOOSE x \in DOMAIN table : TRUE
         IN  table[t].invested_krw + total_invested(Pop(table, t))

\* atr_pct = atr / current_price if current_price > 0 else 0.05, and 0.05
\* again if that is not positive
atr_pct(atr, current_price) ==
    IF current_price > 0 /\ atr > 0 THEN <<atr, current_price>> ELSE <<5, 100>>

Scale(pct) == 10000 * pct[1]

\* a multiplier that takes > 75 for >= 75
conf_mult_Strict(combined_confidence) ==
    IF combined_confidence >= 85 THEN 100
    ELSE IF combined_confidence > 75 THEN 75
    ELSE 50

\* conf_mult, in percent
conf_mult(combined_confidence) ==
    IF combined_confidence >= 85 THEN 100
    ELSE IF combined_confidence >= 75 THEN 75
    ELSE 50

\* available without the sum of what is invested
available_NoInvested(table, total_portfolio_krw) ==
    total_portfolio_krw * MAX_INVESTED_RATIO

\* available, in hundredths
available(table, total_portfolio_krw) ==
    total_portfolio_krw * MAX_INVESTED_RATIO - 100 * total_invested(table)

\* adjusted = total_portfolio_krw * MAX_RISK_PER_TRADE / atr_pct * conf_mult,
\* over Scale(pct)
adjusted(pct, total_portfolio_krw, combined_confidence) ==
    total_portfolio_krw * MAX_RISK_PER_TRADE * pct[2] * conf_mult(combined_confidence)

\* max_single, over Scale(pct)
max_single(pct, total_portfolio_krw) ==
    total_portfolio_krw * MAX_SINGLE_POSITION_RATIO * 100 * pct[1]

Min2(a, b) == IF a <= b THEN a ELSE b
Max2(a, b) == IF a >= b THEN a ELSE b

\* size = max(0.0, min(adjusted, max_single, available)), over Scale(pct)
size(table, pct, total_portfolio_krw, combined_confidence) ==
    Max2(0, Min2(adjusted(pct, total_portfolio_krw, combined_confidence),
                 Min2(max_single(pct, total_portfolio_krw),
                      available(table, total_portfolio_krw) * 100 * pct[1])))

\* calc_position_size without its has_position test
calc_position_size_NoHeldTest(ticker, current_price, atr, total_portfolio_krw, combined_confidence) ==
    LET pct == atr_pct(atr, current_price)
        sized == size(positions, pct, total_portfolio_krw, combined_confidence)
    IN  IF is_full THEN 0
        ELSE IF available(positions, total_portfolio_krw) < MIN_ORDER_KRW * 100 THEN 0
        ELSE IF sized < MIN_ORDER_KRW * Scale(pct) THEN 0
        ELSE round(sized, Scale(pct))

calc_position_size(ticker, current_price, atr, total_portfolio_krw, combined_confidence) ==
    LET pct == atr_pct(atr, current_price)
        sized == size(positions, pct, total_portfolio_krw, combined_confidence)
    IN  IF is_full THEN 0
        ELSE IF has_position(ticker) THEN 0
        ELSE IF available(positions, total_portfolio_krw) < MIN_ORDER_KRW * 100 THEN 0
        ELSE IF sized < MIN_ORDER_KRW * Scale(pct) THEN 0
        ELSE round(sized, Scale(pct))

\* scan_and_trade calls position_mgr.calc_position_size
SizeCall(ticker, current_price, atr, total_portfolio_krw, combined_confidence) ==
    /\ sz.pc = "idle"
    /\ sz' = [pc |-> "done", ticker |-> ticker, current_price |-> current_price,
              atr |-> atr, total_portfolio_krw |-> total_portfolio_krw,
              combined_confidence |-> combined_confidence,
              result |-> calc_position_size(ticker, current_price, atr,
                                            total_portfolio_krw, combined_confidence)]
    /\ UNCHANGED <<main_vars, ox, fn, sc, boot>>

\* the caller has size_krw
SizeReturns ==
    /\ sz.pc = "done"
    /\ sz' = NoSizing
    /\ UNCHANGED <<main_vars, ox, fn, sc, boot>>

\* the first k tickers of HeldOrder held, each bought for invested_krw at 10
HeldTable(k, invested_krw) ==
    [t \in {HeldOrder[i] : i \in 1..k} |->
        NewPosition(10, est_qty(invested_krw, 10), invested_krw)]

\* a process with 0 to MAX_CONCURRENT_POSITIONS open positions, all saved
InitSize ==
    /\ \E k \in 0..MAX_CONCURRENT_POSITIONS, invested_krw \in SizeInvested :
          /\ positions = HeldTable(k, invested_krw)
          /\ file = IF k = 0 THEN [state |-> "missing", data |-> EmptyTable]
                    ELSE [state |-> "ok", data |-> positions]
          /\ fed = Peaks(positions)
    /\ scan_pc = "idle"
    /\ scan_order = NoOrder
    /\ scan_data = EmptyTable
    /\ mon_pc = "idle"
    /\ mon_todo = {}
    /\ mon_cur = NoTicker
    /\ mon_price = NoPrice
    /\ mon_reason = "none"
    /\ mon_exit_price = NoPrice
    /\ mon_data = EmptyTable
    /\ mon_log = NoLog
    /\ sc = NoScan
    /\ stop_event = FALSE
    /\ ox = OxIdle(TRUE)
    /\ sz = NoSizing
    /\ fn = NoFn
    /\ boot = NoBoot

NextSize ==
    \/ \E t \in SizeTickers, p \in SizePrices, a \in SizeAtrs, total \in SizeTotals,
          c \in SizeConfidences : SizeCall(t, p, a, total, c)
    \/ SizeReturns

SpecSize == InitSize /\ [][NextSize]_vars

(***************************************************************************)
(* compute_entry_score (entry_engine.py).  The argument is the record of   *)
(* the values the function reads off its indicator series: the last EMAs,  *)
(* the last three MACD histogram values, the last RSI, ADX and Bollinger   *)
(* mid, the last close, open and volume and the 20-bar volume mean.  A     *)
(* value a series does not have yet is NaN, and every comparison with NaN  *)
(* is false, as for a float.                                               *)
(***************************************************************************)
NaN == -1000

RSI_ENTRY_MIN == 35
RSI_ENTRY_MAX == 65
ADX_THRESHOLD == 20
ENTRY_SCORE_THRESHOLD == 70

Gt(a, b) == a # NaN /\ b # NaN /\ a > b
Ge(a, b) == a # NaN /\ b # NaN /\ a >= b

CANDLE_COUNT == 200

\* candles is len(df): a frame of fetch_ohlcv, or one of two candles, whose
\* series have no element at -3
ScoreInputs ==
    [candles : {CANDLE_COUNT},
     ema9 : {2, 3}, ema21 : {2}, ema50 : {1, 2},
     hist_now : {0, 2}, hist_prev : {-1, 1, 3}, hist_prev2 : {-2, 0},
     rsi : {NaN, 34, 35, 65, 66},
     adx : {NaN, 15, 16, 20, 21},
     close : {10}, bb_mid : {NaN, 9, 10}, open : {9, 10},
     vol_now : {29, 30}, vol_avg : {0, 20}]
    \cup
    [candles : {2},
     ema9 : {2, 3}, ema21 : {2}, ema50 : {2},
     hist_now : {0}, hist_prev : {-1}, hist_prev2 : {NaN},
     rsi : {NaN}, adx : {NaN},
     close : {10}, bb_mid : {NaN}, open : {9, 10},
     vol_now : {30}, vol_avg : {NaN}]

\* hist.iloc[-2] and hist.iloc[-3] (and .iloc[-1] of an empty series) raise
\* IndexError on a frame of fewer than three candles
iloc_raises(i) == i.candles < 3

ema_points(i) ==
    IF Gt(i.ema9, i.ema21) /\ Gt(i.ema21, i.ema50) THEN 25
    ELSE IF Gt(i.ema9, i.ema21) THEN 10
    ELSE 0

\* the MACD rows with the second one tested first
macd_points_ExpandingFirst(i) ==
    IF Gt(i.hist_now, 0) /\ Gt(i.hist_now, i.hist_prev) THEN 15
    ELSE IF Gt(i.hist_now, 0) /\ Ge(0, i.hist_prev) THEN 20
    ELSE IF Gt(i.hist_now, i.hist_prev) /\ Gt(i.hist_prev, i.hist_prev2) THEN 8
    ELSE 0

macd_points(i) ==
    IF Gt(i.hist_now, 0) /\ Ge(0, i.hist_prev) THEN 20
    ELSE IF Gt(i.hist_now, 0) /\ Gt(i.hist_now, i.hist_prev) THEN 15
    ELSE IF Gt(i.hist_now, i.hist_prev) /\ Gt(i.hist_prev, i.hist_prev2) THEN 8
    ELSE 0

rsi_points(i) ==
    IF Ge(i.rsi, RSI_ENTRY_MIN) /\ Ge(RSI_ENTRY_MAX, i.rsi) THEN 15
    ELSE IF Gt(RSI_ENTRY_MIN, i.rsi) THEN 8
    ELSE 0

adx_points(i) ==
    IF Gt(i.adx, ADX_THRESHOLD) THEN 15
    ELSE IF Gt(i.adx, 15) THEN 7
    ELSE 0

above_bb(i) == Gt(i.close, i.bb_mid)

\* vol_ratio = vol_now / vol_avg if vol_avg > 0 else 0.0; vol_ratio >= 1.5
vol_confirmed(i) == Gt(i.vol_avg, 0) /\ Ge(10 * i.vol_now, 15 * i.vol_avg)

bullish_candle(i) == Gt(i.close, i.open)

compute_entry_score(i) ==
    LET score == ema_points(i) + macd_points(i) + rsi_points(i) + adx_points(i)
                 + (IF above_bb(i) THEN 10 ELSE 0)
                 + (IF vol_confirmed(i) THEN 10 ELSE 0)
                 + (IF bullish_candle(i) THEN 5 ELSE 0)
    IN  IF iloc_raises(i) THEN [raised |-> TRUE]
        ELSE
        [raised |-> FALSE,
         score |-> score,
         entry_recommended |-> score >= ENTRY_SCORE_THRESHOLD,
         signals |-> [ema_aligned |-> ema_points(i) = 25,
                      macd_bullish |-> macd_points(i) >= 15,
                      rsi_ok |-> rsi_points(i) = 15,
                      adx_trending |-> adx_points(i) = 15,
                      above_bb_mid |-> above_bb(i),
                      volume_confirmed |-> vol_confirmed(i),
                      bullish_candle |-> bullish_candle(i)]]

\* should_enter calls compute_entry_score(df)
ScoreCall(i) ==
    /\ fn.name = "-"
    /\ fn' = [name |-> "compute_entry_score", arg |-> i,
              result |-> compute_entry_score(i)]
    /\ UNCHANGED <<main_vars, ox, sz, sc, boot>>

\* the caller has the result of the function
FnReturns ==
    /\ fn.name # "-"
    /\ fn' = NoFn
    /\ UNCHANGED <<main_vars, ox, sz, sc, boot>>

NextScore ==
    \/ \E i \in ScoreInputs : ScoreCall(i)
    \/ FnReturns

SpecScore == Init /\ [][NextScore]_vars

(***************************************************************************)
(* scan_market_leaders (leader_scanner.py), from the list of tickers that  *)
(* passed the 24-hour turnover filter.  The argument is that list, each    *)
(* ticker with what the market data gives for it: whether fetch_ohlcv      *)
(* returns a series, the volume surge ratio (in tenths) and the momentum,  *)
(* relative-strength and liquidity scores.  composite_score is in          *)
(* hundredths.                                                             *)
(***************************************************************************)
LEADER_TOP_N == 5
VOLUME_SURGE_MIN_RATIO == 15     \* tenths

EXCLUDED_TICKERS == {"KRW-USDT", "KRW-USDC", "KRW-DAI"}

\* pyupbit.get_tickers(fiat="KRW"), in the order of the scan
ScanOrder == <<"KRW-BTC", "KRW-USDT", "KRW-ETH", "KRW-XRP", "KRW-SOL", "KRW-ADA",
               "KRW-DOGE">>

Market(ohlcv, ratio, mom, rs, liq) ==
    [ohlcv |-> ohlcv, ratio |-> ratio, mom |-> mom, rs |-> rs, liq |-> liq]

\* what the market data can be for one ticker
Profiles == {Market(TRUE, 30, 100, 50, 50), Market(TRUE, 15, 100, 50, 50),
             Market(TRUE, 15, 0, 50, 50), Market(TRUE, 12, 100, 100, 100),
             Market(FALSE, 30, 100, 100, 100)}

\* the excluded pair has the best market data of all
ScanInputs ==
    {[t \in {ScanOrder[k] : k \in 1..Len(ScanOrder)} |->
         IF t \in EXCLUDED_TICKERS THEN Market(TRUE, 30, 100, 100, 100) ELSE m[t]] :
       m \in [{ScanOrder[k] : k \in 1..Len(ScanOrder)} \ EXCLUDED_TICKERS -> Profiles]}

\* _calc_volume_score: min(100, ratio / 3 * 100), at least 0
volume_score(ratio) == Max2(0, Min2(100, (ratio * 10) \div 3))

\* composite = 0.35 vol + 0.30 mom + 0.20 rs + 0.15 liq
composite_score(m) == 35 * volume_score(m.ratio) + 30 * m.mom + 20 * m.rs + 15 * m.liq

\* the loop body's tests without the one on the surge ratio
is_scored_NoSurgeTest(t, m) ==
    /\ t \notin EXCLUDED_TICKERS
    /\ m.ohlcv

\* the loop body of scan_market_leaders gets to results.append for t
is_scored(t, m) ==
    /\ t \notin EXCLUDED_TICKERS
    /\ m.ohlcv
    /\ ~(m.ratio < VOLUME_SURGE_MIN_RATIO)

RECURSIVE scan_results(_, _)
\* results, after the loop went through the first n tickers
scan_results(market, n) ==
    IF n = 0 THEN << >>
    ELSE LET t == ScanOrder[n]
             before == scan_results(market, n - 1)
         IN  IF is_scored(t, market[t])
               THEN Append(before, [ticker |-> t,
                                    composite_score |-> composite_score(market[t]),
                                    volume_ratio |-> market[t].ratio])
               ELSE before

RECURSIVE insert_desc_BeforeEqual(_, _)
\* an insertion that puts x in front of the elements equal to it
insert_desc_BeforeEqual(sorted, x) ==
    IF sorted = << >> THEN <<x>>
    ELSE IF Head(sorted).composite_score > x.composite_score
           THEN <<Head(sorted)>> \o insert_desc_BeforeEqual(Tail(sorted), x)
           ELSE <<x>> \o sorted

RECURSIVE insert_desc(_, _)
\* x goes behind every element of `sorted` that is not smaller than it
insert_desc(sorted, x) ==
    IF sorted = << >> THEN <<x>>
    ELSE IF Head(sorted).composite_score >= x.composite_score
           THEN <<Head(sorted)>> \o insert_desc(Tail(sorted), x)
           ELSE <<x>> \o sorted

RECURSIVE sort_desc(_)
\* results.sort(key=composite_score, reverse=True): stable, descending
sort_desc(results) ==
    IF results = << >> THEN << >>
    ELSE insert_desc(sort_desc(SubSeq(results, 1, Len(results) - 1)),
                     results[Len(results)])

\* results[:CONFIG.LEADER_TOP_N]
top_n(results) == SubSeq(results, 1, Min2(Len(results), LEADER_TOP_N))

scan_market_leaders(market) == top_n(sort_desc(scan_results(market, Len(ScanOrder))))

\* scan_and_trade calls scan_market_leaders()
LeadersCall(market) ==
    /\ fn.name = "-"
    /\ fn' = [name |-> "scan_market_leaders", arg |-> market,
              result |-> scan_market_leaders(market)]
    /\ UNCHANGED <<main_vars, ox, sz, sc, boot>>

NextLeaders ==
    \/ \E market \in ScanInputs : LeadersCall(market)
    \/ FnReturns

SpecLeaders == Init /\ [][NextLeaders]_vars

(***************************************************************************)
(* scan_and_trade (main.py) as one sequential call with its leaders loop,  *)
(* and main's loop around it; the scan thread of Spec is one candidate of  *)
(* this loop.  sc.pc is "idle" (main's while condition), "pending" (the    *)
(* condition was true, schedule.run_pending is about to call the job),     *)
(* "loop" (before a candidate of the for loop), "buy" (inside               *)
(* executor.buy) or "returned" (main's loop is over).  A leader is the     *)
(* ticker with what should_enter gives for it.  Nothing else touches the   *)
(* table here, so open_position is one step.                               *)
(***************************************************************************)
ScanTickers == {"KRW-BTC", "KRW-ETH", "KRW-XRP"}
ScanBalances == {4000, 6000, 50000}     \* executor.get_krw_balance()
ScanTotals == {50000}                   \* executor.get_total_portfolio_krw()

Leader(t, enter) ==
    [ticker |-> t, enter |-> enter, entry_price |-> 10, atr |-> 1,
     combined_confidence |-> 75]

\* the lists scan_market_leaders can return: distinct tickers
LeaderLists ==
    {l \in UNION {[1..n -> {Leader(t, e) : t \in ScanTickers, e \in BOOLEAN}] : n \in 1..3} :
        \A j, k \in 1..Len(l) : j # k => l[j].ticker # l[k].ticker}

\* the budget charged for a buy whether it succeeded or not
budget_after_Always(krw_balance, order) == krw_balance - order.amount_krw

\* krw_balance -= order.amount_krw, inside if order.success
budget_after(krw_balance, order) ==
    IF order.success THEN krw_balance - order.amount_krw ELSE krw_balance

\* size_krw without the cap of 95% of the budget
scan_size_NoBudgetCap(l, total_portfolio, krw_balance) ==
    LET size_krw == calc_position_size(l.ticker, l.entry_price, l.atr, total_portfolio,
                                       l.combined_confidence)
    IN  IF has_position(l.ticker) \/ ~l.enter \/ size_krw <= 0 THEN 0
        ELSE IF size_krw < MIN_ORDER_KRW THEN 0
        ELSE size_krw

\* size_krw of the candidate: calc_position_size, then
\* min(size_krw, krw_balance * 0.95); 0 for a candidate that is passed over
scan_size(l, total_portfolio, krw_balance) ==
    LET size_krw == calc_position_size(l.ticker, l.entry_price, l.atr, total_portfolio,
                                       l.combined_confidence)
        capped == Min2(size_krw, (krw_balance * 95) \div 100)
    IN  IF has_position(l.ticker) \/ ~l.enter \/ size_krw <= 0 THEN 0
        ELSE IF capped < MIN_ORDER_KRW THEN 0
        ELSE capped

\* main: while not _stop_event.is_set() is true
MainChecksStop ==
    /\ sc.pc = "idle"
    /\ ~stop_event
    /\ sc' = [sc EXCEPT !.pc = "pending"]
    /\ UNCHANGED <<main_vars, ox, sz, fn, boot>>

\* main: while not _stop_event.is_set() is false
MainLoopEnds ==
    /\ sc.pc = "idle"
    /\ stop_event
    /\ sc' = [sc EXCEPT !.pc = "returned"]
    /\ UNCHANGED <<main_vars, ox, sz, fn, boot>>

\* scan_and_trade up to its for loop; it returns at once when the table is
\* full, the balance is below the minimum or there is no leader
ScanStarts(leaders, total_portfolio, krw_balance) ==
    /\ sc.pc = "pending"
    /\ sc' = IF is_full \/ krw_balance < MIN_ORDER_KRW \/ leaders = << >>
               THEN NoScan
               ELSE [NoScan EXCEPT !.pc = "loop", !.leaders = leaders,
                                   !.total_portfolio = total_portfolio,
                                   !.krw_balance = krw_balance,
                                   !.start_balance = krw_balance]
    /\ UNCHANGED <<main_vars, ox, sz, fn, boot>>

\* one candidate of the for loop, up to continue, break or executor.buy
ScanLeader ==
    /\ sc.pc = "loop"
    /\ sc.leaders # << >>
    /\ LET l == Head(sc.leaders)
           size_krw == scan_size(l, sc.total_portfolio, sc.krw_balance)
       IN  sc' = IF is_full
                   THEN [sc EXCEPT !.leaders = << >>, !.order = NoRequest,
                                   !.result = NoResult]
                 ELSE IF size_krw = 0
                   THEN [sc EXCEPT !.leaders = Tail(@), !.order = NoRequest,
                                   !.result = NoResult]
                 ELSE [sc EXCEPT !.pc = "buy", !.result = NoResult,
                                 !.order = [side |-> "buy", ticker |-> l.ticker,
                                            price |-> l.entry_price,
                                            quantity |-> est_qty(size_krw, l.entry_price),
                                            amount_krw |-> size_krw]]
    /\ UNCHANGED <<main_vars, ox, sz, fn, boot>>

\* executor.buy returns; if order.success: open_position, the budget and
\* the count of entries; then the next candidate
ScanOrderReturns(order) ==
    /\ sc.pc = "buy"
    /\ sc' = [sc EXCEPT !.pc = "loop", !.leaders = Tail(@), !.result = order,
                        !.krw_balance = budget_after(@, order),
                        !.entered = IF order.success THEN @ + 1 ELSE @]
    /\ IF order.success
       THEN /\ positions' = Insert(positions, sc.order.ticker,
                                   NewPosition(order.price, order.quantity,
                                               order.amount_krw))
            /\ fed' = Insert(fed, sc.order.ticker, order.price)
            /\ file' = [state |-> "ok", data |-> positions']
       ELSE UNCHANGED <<positions, fed, file>>
    /\ UNCHANGED <<scan_vars, mon_vars, stop_event, ox, sz, fn, boot>>

\* the for loop is over: scan_and_trade returns to main's loop
ScanEnds ==
    /\ sc.pc = "loop"
    /\ sc.leaders = << >>
    /\ sc' = NoScan
    /\ UNCHANGED <<main_vars, ox, sz, fn, boot>>

NextScan ==
    \/ MainChecksStop
    \/ MainLoopEnds
    \/ \E leaders \in LeaderLists, total \in ScanTotals, balance \in ScanBalances :
          ScanStarts(leaders, total, balance)
    \/ ScanLeader
    \/ \E order \in {retry_succeeded(sc.order, "u1"),
                     retry_exhausted(sc.order, "raise")} : ScanOrderReturns(order)
    \/ ScanEnds
    \/ SignalStop

SpecScan == Init /\ [][NextScan]_vars

(***************************************************************************)
(* The state file in full: Position.to_dict / from_dict and _save / _load  *)
(* (position_manager.py) with all ten fields of the dataclass.  A JSON     *)
(* value is its token: a number, a string, true or false; json.dump writes *)
(* a float with repr, which json.load reads back to the same float.  The   *)
(* Load of the state file above is this _load on the fields it keeps.      *)
(***************************************************************************)
Fields == {"ticker", "entry_price", "quantity", "entry_time", "invested_krw",
           "stop_loss_price", "peak_price", "trailing_active", "entry_score",
           "leader_score"}
\* the fields of the dataclass that have a default
Defaulted == {"trailing_active", "entry_score", "leader_score"}

\* a Position as open_position makes it and update_peak changes it
StorePosition(t, entry_price, peak_price, trailing_active) ==
    [ticker          |-> t,
     entry_price     |-> entry_price,
     quantity        |-> 550,
     entry_time      |-> 1000,
     invested_krw    |-> 5500,
     stop_loss_price |-> entry_price * (100 + STOP_LOSS_RATE),
     peak_price      |-> peak_price,
     trailing_active |-> trailing_active,
     entry_score     |-> 80,
     leader_score    |-> 60]

StorePositions(t) ==
    {StorePosition(t, e, p, a) : e \in EntryPrices, p \in {11, 12}, a \in BOOLEAN}

\* the tables _positions can hold
StoreTables ==
    {table \in UNION {[D -> UNION {StorePositions(t) : t \in Tickers}] : D \in SUBSET Tickers} :
        \A t \in DOMAIN table : table[t].ticker = t}

\* json.dump of one field of asdict(self)
json_value(k, v) ==
    IF k = "trailing_active" THEN [type |-> IF v THEN "true" ELSE "false"]
    ELSE IF k = "ticker" THEN [type |-> "string", str |-> v]
    ELSE [type |-> "number", num |-> v]

\* json.load of one value
python_value(j) ==
    IF j.type = "true" THEN TRUE
    ELSE IF j.type = "false" THEN FALSE
    ELSE IF j.type = "string" THEN j.str
    ELSE j.num

\* to_dict: asdict(self), as json.dump writes it
to_dict(pos) == [k \in DOMAIN pos |-> json_value(k, pos[k])]

\* cls(**data) is a TypeError for a missing field without default and for
\* an unknown key
from_dict_raises(d) ==
    \/ ~((Fields \ Defaulted) \subseteq DOMAIN d)
    \/ ~(DOMAIN d \subseteq Fields)

default_value(k) == IF k = "trailing_active" THEN FALSE ELSE 0

\* a from_dict that reads the fields without default only
from_dict_Required(d) ==
    [k \in Fields |-> IF k \in DOMAIN d /\ k \notin Defaulted THEN python_value(d[k])
                      ELSE default_value(k)]

\* from_dict: cls(**data)
from_dict(d) ==
    [k \in Fields |-> IF k \in DOMAIN d THEN python_value(d[k]) ELSE default_value(k)]

\* _save: the file after a complete json.dump
save(table) == [state |-> "ok", doc |-> [t \in DOMAIN table |-> to_dict(table[t])]]

\* _load in a fresh PositionManager, whose _positions is {}: return when
\* the file does not exist; any exception of open, json.load or from_dict
\* is caught and leaves {}
load(f) ==
    IF f.state # "ok" THEN EmptyTable
    ELSE IF \E t \in DOMAIN f.doc : from_dict_raises(f.doc[t]) THEN EmptyTable
    ELSE [t \in DOMAIN f.doc |-> from_dict(f.doc[t])]

Without(d, k) == [x \in DOMAIN d \ {k} |-> d[x]]

\* files no complete _save of this version wrote: none, one json.load
\* cannot parse, and documents with a field missing
OtherFiles ==
    {[state |-> "missing", doc |-> EmptyTable], [state |-> "invalid", doc |-> EmptyTable]}
    \cup {[state |-> "ok",
           doc |-> [t \in {"KRW-BTC"} |->
                      Without(to_dict(StorePosition(t, 10, 12, TRUE)), k)]]
             : k \in {"peak_price", "trailing_active"}}

\* _save of a table
StoreSave(table) ==
    /\ fn.name = "-"
    /\ fn' = [name |-> "_save", arg |-> table, result |-> save(table)]
    /\ UNCHANGED <<main_vars, ox, sz, sc, boot>>

\* PositionManager() on the file the _save wrote
StoreLoad ==
    /\ fn.name = "_save"
    /\ fn' = [name |-> "_load", arg |-> fn.result, result |-> load(fn.result)]
    /\ UNCHANGED <<main_vars, ox, sz, sc, boot>>

\* PositionManager() on another file
StoreLoadOther(f) ==
    /\ fn.name = "-"
    /\ fn' = [name |-> "_load", arg |-> f, result |-> load(f)]
    /\ UNCHANGED <<main_vars, ox, sz, sc, boot>>

NextStore ==
    \/ \E table \in StoreTables : StoreSave(table)
    \/ StoreLoad
    \/ \E f \in OtherFiles : StoreLoadOther(f)
    \/ FnReturns

SpecStore == Init /\ [][NextStore]_vars

(***************************************************************************)
(* The start of the process: the import of main.py builds PositionManager  *)
(* and OrderExecutor, then main() validates the configuration, starts the  *)
(* monitor thread and runs the first scan.  boot.pc is "import", "main",   *)
(* "validated", "monitor", "running" or "aborted".  Rates are in percent;  *)
(* a key is TRUE when the environment has a non-empty value for it.        *)
(***************************************************************************)
Configs ==
    [DRY_RUN : BOOLEAN, UPBIT_ACCESS_KEY : BOOLEAN, UPBIT_SECRET_KEY : BOOLEAN,
     api_answers : BOOLEAN, STOP_LOSS_RATE : {-100, -10, 0},
     MAX_CONCURRENT_POSITIONS : {0, 1, 5}]

MaxBootOrders == 2     \* orders counted after the start

\* validate without its test of the stop-loss rate
validate_raises_NoRateTest(c) ==
    \/ ~c.DRY_RUN /\ (~c.UPBIT_ACCESS_KEY \/ ~c.UPBIT_SECRET_KEY)
    \/ c.MAX_CONCURRENT_POSITIONS < 1

\* TradingConfig.validate raises ValueError
validate_raises(c) ==
    \/ ~c.DRY_RUN /\ (~c.UPBIT_ACCESS_KEY \/ ~c.UPBIT_SECRET_KEY)
    \/ ~(-100 < c.STOP_LOSS_RATE /\ c.STOP_LOSS_RATE < 0)
    \/ c.MAX_CONCURRENT_POSITIONS < 1

\* OrderExecutor._init_client raises RuntimeError: no keys in live mode, or
\* get_balance("KRW") failed
init_client_raises(c) ==
    /\ ~c.DRY_RUN
    /\ \/ ~c.UPBIT_ACCESS_KEY \/ ~c.UPBIT_SECRET_KEY
       \/ ~c.api_answers

\* python main.py with a configuration
BootStart(c) ==
    /\ boot.pc = "-"
    /\ boot' = [NoBoot EXCEPT !.pc = "import", !.config = c]
    /\ UNCHANGED <<main_vars, ox, sz, fn, sc>>

\* the module level of main.py: position_mgr = PositionManager(),
\* executor = OrderExecutor(); an exception here is not caught
BootImport ==
    /\ boot.pc = "import"
    /\ boot' = [boot EXCEPT !.pc = IF init_client_raises(boot.config) THEN "aborted"
                                   ELSE "main"]
    /\ UNCHANGED <<main_vars, ox, sz, fn, sc>>

\* main() up to the signal handlers: CONFIG.validate(), sys.exit(1) on
\* ValueError
BootValidate ==
    /\ boot.pc = "main"
    /\ boot' = [boot EXCEPT !.pc = IF validate_raises(boot.config) THEN "aborted"
                                   ELSE "validated"]
    /\ UNCHANGED <<main_vars, ox, sz, fn, sc>>

\* monitor_thread.start()
BootMonitor ==
    /\ boot.pc = "validated"
    /\ boot' = [boot EXCEPT !.pc = "monitor", !.monitor_started = TRUE]
    /\ UNCHANGED <<main_vars, ox, sz, fn, sc>>

\* the first scan_and_trade() of main
BootFirstScan ==
    /\ boot.pc = "monitor"
    /\ boot' = [boot EXCEPT !.pc = "running", !.scans = 1]
    /\ UNCHANGED <<main_vars, ox, sz, fn, sc>>

\* a sell of the monitor or a buy of a scan goes to the executor
BootOrder ==
    /\ \/ boot.pc = "monitor"
       \/ boot.pc = "running"
    /\ boot.orders < MaxBootOrders
    /\ boot' = [boot EXCEPT !.orders = @ + 1]
    /\ UNCHANGED <<main_vars, ox, sz, fn, sc>>

NextBoot ==
    \/ \E c \in Configs : BootStart(c)
    \/ BootImport
    \/ BootValidate
    \/ BootMonitor
    \/ BootFirstScan
    \/ BootOrder

SpecBoot == Init /\ [][NextBoot]_vars

(***************************************************************************)
(* The two threads at the limit of MAX_CONCURRENT_POSITIONS: the process   *)
(* starts with four or five positions restored from the state file, and    *)
(* the scans recommend a sixth ticker and one of the restored ones.  A     *)
(* price of 9 is a stop-loss for the entry price 10, a price of 10 leaves  *)
(* the position as it is.                                                  *)
(***************************************************************************)
FullCandidates == {"KRW-DOGE", "KRW-BTC"}     \* what the scans recommend
\* the prices the tick gets: the market falls for two of the tickers only
FullPrices(t) == IF t \in {"KRW-BTC", "KRW-ETH"} THEN {9, 10} ELSE {10}
Restored(n) == [t \in {HeldOrder[k] : k \in 1..n} |-> NewPosition(10, 550, 5500)]

InitFull ==
    /\ \E n \in {MAX_CONCURRENT_POSITIONS - 1, MAX_CONCURRENT_POSITIONS} :
          /\ positions = Restored(n)
          /\ file = [state |-> "ok", data |-> Restored(n)]
          /\ fed = Peaks(Restored(n))
    /\ scan_pc = "idle"
    /\ scan_order = NoOrder
    /\ scan_data = EmptyTable
    /\ mon_pc = "idle"
    /\ mon_todo = {}
    /\ mon_cur = NoTicker
    /\ mon_price = NoPrice
    /\ mon_reason = "none"
    /\ mon_exit_price = NoPrice
    /\ mon_data = EmptyTable
    /\ mon_log = NoLog
    /\ sc = NoScan
    /\ stop_event = FALSE
    /\ ox = OxIdle(TRUE)
    /\ sz = NoSizing
    /\ fn = NoFn
    /\ boot = NoBoot

NextFull ==
    \/ \E t \in FullCandidates, a \in Amounts : ScanSubmitBuy(t, 10, a)
    \/ \E ok \in BOOLEAN : ScanBuyReturns(ok)
    \/ ScanSaveData
    \/ ScanSaveOpen
    \/ ScanSaveWrite
    \/ MonTickStarts
    \/ \E t \in SizeTickers : \E p \in FullPrices(t) : MonCheckExit(t, p)
    \/ \E ok \in BOOLEAN : MonSellReturns(ok)
    \/ MonSaveData
    \/ MonSaveOpen
    \/ MonSaveWrite
    \/ MonTickEnds

SpecFull == InitFull /\ [][NextFull]_vars

(***************************************************************************)
(* Scans and exits with one total portfolio value throughout: every scan   *)
(* has one candidate among five tickers, sized by calc_position_size on    *)
(* the table as it is, and the monitor closes positions in between.        *)
(* A confidence of 75 gives the multiplier 0.75 and 85 gives 1.0.          *)
(***************************************************************************)
CapTotal == 40002           \* executor.get_total_portfolio_krw(), every scan
CapBalance == 50000         \* executor.get_krw_balance(), every scan
CapTickers == {HeldOrder[k] : k \in 1..5}
CapLeaders ==
    {<<[Leader(t, TRUE) EXCEPT !.combined_confidence = c]>> :
        t \in CapTickers, c \in {75, 85}}

\* a tick of the monitor between two steps of the scan: check_exit gives a
\* reason for the position of t, the sell, close_position and its _save
ExitTick(t) ==
    /\ has_position(t)
    /\ positions' = Pop(positions, t)
    /\ fed' = Pop(fed, t)
    /\ file' = [state |-> "ok", data |-> positions']
    /\ UNCHANGED <<scan_vars, mon_vars, stop_event, ox, sz, fn, sc, boot>>

NextCaps ==
    \/ MainChecksStop
    \/ \E leaders \in CapLeaders : ScanStarts(leaders, CapTotal, CapBalance)
    \/ ScanLeader
    \/ \E order \in {retry_succeeded(sc.order, "u1"),
                     retry_exhausted(sc.order, "raise")} : ScanOrderReturns(order)
    \/ ScanEnds
    \/ \E t \in CapTickers : ExitTick(t)

SpecCaps == Init /\ [][NextCaps]_vars

(***************************************************************************)
(* One Position from open_position on, driven by check_exit calls alone,   *)
(* with prices just below, at and above the activation level of the        *)
(* trailing stop (entry price 100: 104, 105, 106).                         *)
(***************************************************************************)
PeakEntries == {100, 200}
PeakPrices == {95, 100, 104, 105, 106, 110, 190, 209, 210, 211, 220}

\* open_position(ticker, entry_price, ...)
PeakOpen(entry_price) ==
    /\ fn.name = "-"
    /\ fn' = [name |-> "open_position", arg |-> entry_price,
              result |-> [pos |-> NewPosition(entry_price, 50, 5000),
                          reason |-> "none"]]
    /\ UNCHANGED <<main_vars, ox, sz, sc, boot>>

\* check_exit(pos, current_price): pos.update_peak(current_price), then the
\* reason
PeakCheckExit(current_price) ==
    /\ fn.name \in {"open_position", "check_exit"}
    /\ LET pos == update_peak(fn.result.pos, current_price)
       IN  fn' = [name |-> "check_exit",
                  arg |-> [pos |-> fn.result.pos, current_price |-> current_price],
                  result |-> [pos |-> pos, reason |-> exit_reason(pos, current_price)]]
    /\ UNCHANGED <<main_vars, ox, sz, sc, boot>>

NextPeak ==
    \/ \E e \in PeakEntries : PeakOpen(e)
    \/ \E p \in PeakPrices : PeakCheckExit(p)
    \/ FnReturns

SpecPeak == Init /\ [][NextPeak]_vars

(***************************************************************************)
(* Properties.                                                             *)
(***************************************************************************)
SaveStates == {"save_data", "save_open", "save_write"}

\* the monitor's loop variables hold the outcome of the latest check_exit
\* on the open position t, which nothing has touched since
JustChecked(t) ==
    /\ mon_cur = t
    /\ has_position(t)
    /\ \/ mon_pc = "sell"
       \/ mon_pc = "loop" /\ mon_reason = "none"

\* the tickers _load restores from the state file
FileTickers == DOMAIN Load(file)

\* C1: when check_exit triggered for a position and sell_fn returned no
\* fill price (the sell failed), the position stays in the open set.
C1_FailedSellKeepsPosition ==
    \A t \in Tickers :
        (mon_cur = t /\ mon_reason # "none" /\ mon_pc \in SaveStates
            /\ mon_exit_price = NoPrice) => has_position(t)

\* C2: check_exit returns the stop-loss reason whenever
\* current_price <= stop_loss_price, whatever trailing_active is and also
\* when the trailing-stop condition holds at the same time.
C2_StopLossPriority ==
    \A t \in Tickers :
        (JustChecked(t) /\ mon_price * 100 <= positions[t].stop_loss_price)
            => mon_reason = "stop-loss"

C2_Witness ==
    \E t \in Tickers :
        /\ JustChecked(t)
        /\ mon_price * 100 <= positions[t].stop_loss_price
        /\ positions[t].trailing_active
        /\ mon_price * 100 <= positions[t].peak_price * (100 + TRAILING_STOP_RATE)
        /\ mon_reason = "stop-loss"

\* C3: a check_exit call with current_price > stop_loss_price returns the
\* trailing-stop reason exactly when, after the call's update,
\* trailing_active is true and current_price <= peak_price*(1+TRAILING_STOP_RATE);
\* otherwise it returns no exit.
C3_TrailingStopExactly ==
    \A t \in Tickers :
        (JustChecked(t) /\ mon_price * 100 > positions[t].stop_loss_price)
            => /\ mon_reason \in {"trailing-stop", "none"}
               /\ mon_reason = "trailing-stop"
                    <=> /\ positions[t].trailing_active
                        /\ mon_price * 100
                             <= positions[t].peak_price * (100 + TRAILING_STOP_RATE)

C3_Witness ==
    \E t \in Tickers :
        /\ JustChecked(t)
        /\ mon_price * 100 > positions[t].stop_loss_price
        /\ mon_price < positions[t].entry_price
        /\ mon_reason = "trailing-stop"

\* C4: over the check_exit calls on a Position object, peak_price never
\* decreases and equals the maximum of its initial peak (entry_price for a
\* position made by open_position) and every price passed so far; so
\* peak_price >= entry_price in every reachable state.
C4_PeakIsMax ==
    \A t \in DOMAIN positions :
        /\ positions[t].peak_price = fed[t]
        /\ positions[t].peak_price >= positions[t].entry_price

C4_PeakStep ==
    Restart \/ \A t \in DOMAIN positions \cap DOMAIN positions' :
                  positions'[t].peak_price >= positions[t].peak_price

C4_PeakMonotonic == [] C4_PeakIsMax /\ [][C4_PeakStep]_vars

C4_Witness ==
    \E t \in Tickers :
        /\ JustChecked(t)
        /\ mon_price < positions[t].peak_price
        /\ positions[t].peak_price > positions[t].entry_price

\* C5: trailing_active is false when a position is opened, and a step of
\* the running process never takes it from true to false on an open
\* position, whatever price check_exit gets.
C5_TrailingStep ==
    Restart \/ /\ \A t \in DOMAIN positions \cap DOMAIN positions' :
                     positions[t].trailing_active => positions'[t].trailing_active
               /\ \A t \in DOMAIN positions' \ DOMAIN positions :
                     ~positions'[t].trailing_active

C5_TrailingOneWay == [][C5_TrailingStep]_vars

C5_Witness ==
    \E t \in Tickers :
        /\ JustChecked(t)
        /\ positions[t].trailing_active
        /\ mon_price < positions[t].entry_price

\* C6: stop_loss_price is entry_price*(1+STOP_LOSS_RATE), and no step of
\* the running process changes stop_loss_price, entry_price, quantity or
\* invested_krw of an open position.
C6_StopLossFixed ==
    \A t \in DOMAIN positions :
        positions[t].stop_loss_price
            = positions[t].entry_price * (100 + STOP_LOSS_RATE)

C6_FrameStep ==
    Restart \/ \A t \in DOMAIN positions \cap DOMAIN positions' :
                  /\ positions'[t].stop_loss_price = positions[t].stop_loss_price
                  /\ positions'[t].entry_price = positions[t].entry_price
                  /\ positions'[t].quantity = positions[t].quantity
                  /\ positions'[t].invested_krw = positions[t].invested_krw

C6_StopLossImmutable == [] C6_StopLossFixed /\ [][C6_FrameStep]_vars

C6_Witness ==
    \E t \in Tickers, u \in Tickers :
        /\ t # u
        /\ has_position(t)
        /\ positions[t].peak_price > positions[t].entry_price
        /\ positions[t].trailing_active
        /\ ~has_position(u)
        /\ file.state = "ok"
        /\ DOMAIN file.data = {t}
        /\ file.data[t].peak_price > file.data[t].entry_price

\* C7: the scan flow is never between open_position's insert and the end
\* of its save while the monitor flow is between close_position's remove
\* and the end of its save.
C7_MutationsExclusive ==
    ~(scan_pc \in SaveStates /\ mon_pc \in SaveStates)

\* C8: once open_position and close_position have completed, the persisted
\* record set has exactly the tickers of the in-memory open set.
C8_FileMatchesTable ==
    (scan_pc \notin SaveStates /\ mon_pc \notin SaveStates)
        => FileTickers = DOMAIN positions

\* C9: when the process stops and is restarted, every restored position
\* has the peak_price and trailing_active it had in memory when it stopped.
C9_RestartStep ==
    Restart => \A t \in DOMAIN positions' :
                  /\ t \in DOMAIN positions
                  /\ positions'[t].peak_price = positions[t].peak_price
                  /\ positions'[t].trailing_active = positions[t].trailing_active

C9_RestartKeepsRiskState == [][C9_RestartStep]_vars

\* C10: at every step of a persisted write the state file holds a complete
\* record set, the previous one or the new one.
C10_FileAlwaysComplete == file.state # "partial"

\* C11: when the persisted write fails in open_position or close_position,
\* the failure is contained and the calling loop goes on: a failed write
\* never ends the process.
C11_SaveFailureContained == scan_pc # "exit_save_error"

\* C12: an exception raised inside a scan tick never terminates the scan
\* loop (the main thread keeps running while the stop signal is not set).
C12_ScanLoopSurvives == scan_pc \in ExitStates => scan_pc = "exit_stopped"

\* C13: an exception raised inside a monitor tick is caught, the monitor
\* then waits and goes back to its loop condition, and the monitor's loop
\* ends only when the stop signal is set.
C13_EndsOnlyOnStop == mon_pc = "ended" => stop_event

C13_CaughtStep ==
    (mon_pc = "caught" /\ mon_pc' # "caught") => mon_pc' \in {"idle", "killed"}

C13_MonitorSurvives == [] C13_EndsOnlyOnStop /\ [][C13_CaughtStep]_vars

C13_Witness ==
    /\ mon_pc = "caught"
    /\ ~stop_event
    /\ file.state = "partial"
    /\ DOMAIN positions # {}

\* a call that went into _retry
live_call ==
    /\ ~ox.dry_run
    /\ ~(ox.req.side = "buy" /\ ox.req.amount_krw < MIN_ORDER_KRW)

\* C14: in live mode one buy or sell makes at most 3 submissions; a
\* submission that raises or whose response has no uuid is a failed attempt
\* and is followed by another (up to the third); the call returns at the
\* first response with a uuid, with success and that uuid as the order id,
\* and submits nothing after it.
C14_AtMostThreeAttempts ==
    /\ Len(ox.outcomes) <= 3
    /\ \A i \in 1..(Len(ox.outcomes) - 1) : ox.outcomes[i] \in Faults
    /\ (ox.pc = "done" /\ live_call) =>
          LET n == Len(ox.outcomes)
          IN  /\ n >= 1
              /\ \/ /\ ox.outcomes[n] \in Uuids
                    /\ ox.result.success
                    /\ ox.result.order_id = ox.outcomes[n]
                 \/ /\ ox.outcomes[n] \in Faults
                    /\ n = 3
                    /\ ~ox.result.success

C14_Witness ==
    /\ ox.pc = "done"
    /\ ox.outcomes = <<"raise", "u2">>
    /\ ox.result.success
    /\ ox.result.order_id = "u2"

\* C15: in live mode the sleep after failed attempt k is base_delay*2^(k-1),
\* 1 after the first failure and 2 after the second; two failures and then
\* a success give success with exactly the delays 1, 2; nothing is slept
\* after the third attempt.
C15_BackoffDelays ==
    /\ Len(ox.delays) <= 2
    /\ \A k \in 1..Len(ox.delays) : ox.delays[k] = 2^(k - 1)
    /\ ox.pc = "attempt" => Len(ox.delays) = Len(ox.outcomes)
    /\ (ox.pc = "done" /\ live_call) => Len(ox.delays) = Len(ox.outcomes) - 1
    /\ (ox.pc = "done" /\ Len(ox.outcomes) = 3 /\ ox.outcomes[3] \in Uuids) =>
          (ox.result.success /\ ox.delays = <<1, 2>>)

C15_Witness ==
    /\ ox.pc = "done"
    /\ ox.outcomes = <<"no-uuid", "raise", "u1">>
    /\ ox.delays = <<1, 2>>
    /\ ox.result.success

\* C16: in live mode, when all 3 submissions fail, the call returns a result
\* with success false, no order id, an error that carries the error of the
\* third attempt, and the requested price and quantity.
C16_ExhaustedResult ==
    (ox.pc = "done" /\ Len(ox.outcomes) = 3 /\ ox.outcomes[3] \in Faults) =>
       /\ ~ox.result.success
       /\ ox.result.order_id = "-"
       /\ ox.result.error = "final failure (3): " \o ox.outcomes[3]
       /\ ox.result.price = ox.req.price
       /\ ox.result.quantity = ox.req.quantity
       /\ ox.result.side = ox.req.side
       /\ ox.result.ticker = ox.req.ticker

C16_Witness ==
    /\ ox.pc = "done"
    /\ ox.outcomes = <<"raise", "raise", "no-uuid">>
    /\ ox.req.side = "sell"
    /\ ox.delays = <<1, 2>>
    /\ ~ox.result.success

\* C17: a buy or a sell whose notional is below the minimum order notional
\* is rejected: success false and no submission, in either mode.
C17_BelowMinimumRejected ==
    (ox.pc # "idle" /\ ox.req.amount_krw < MIN_ORDER_KRW) =>
       /\ ox.pc = "done"
       /\ ~ox.result.success
       /\ ox.outcomes = << >>

\* C18: in simulation mode nothing is submitted to the gateway, and a call
\* that passes validation returns success, marked as simulated, with the
\* requested price and the requested quantity (amount / price for a buy);
\* a call with the arguments of the call before it returns the same result.
C18_DryRunSynthetic ==
    ox.dry_run =>
       /\ ox.outcomes = << >>
       /\ ox.delays = << >>
       /\ ox.pc \in {"idle", "done"}
       /\ (ox.pc = "done" /\ ox.req.amount_krw >= MIN_ORDER_KRW) =>
             /\ ox.result.success
             /\ ox.result.dry_run
             /\ ox.result.price = ox.req.price
             /\ ox.result.quantity = ox.req.quantity
             /\ ox.req.side = "buy" =>
                   ox.result.quantity * ox.req.price = ox.req.amount_krw
             /\ ox.prev.req = ox.req => ox.prev.result = ox.result

C18_Witness ==
    /\ ox.dry_run
    /\ ox.pc = "done"
    /\ ox.req.side = "buy"
    /\ ox.prev.req = ox.req
    /\ ox.result.success
    /\ ox.result.quantity = 500

\* the arguments of the finished calc_position_size call, as the claims
\* of sizing state them
sz_available100 == sz.total_portfolio_krw * 80 - 100 * total_invested(positions)
sz_cap100 == sz.total_portfolio_krw * 20
sz_multiplier == IF sz.combined_confidence >= 85 THEN 100
                 ELSE IF sz.combined_confidence >= 75 THEN 75 ELSE 50
sz_pct == atr_pct(sz.atr, sz.current_price)
\* min(base_size * multiplier, cap, available), times 10000 * sz_pct[1]
sz_min ==
    Min2(sz.total_portfolio_krw * 2 * sz_pct[2] * sz_multiplier,
         Min2(sz_cap100, sz_available100) * 100 * sz_pct[1])
sz_rejects ==
    \/ sz.ticker \in DOMAIN positions
    \/ Cardinality(DOMAIN positions) >= 5
    \/ sz_available100 < 5000 * 100
    \/ sz_min < 5000 * 10000 * sz_pct[1]

\* C19: calc_position_size returns 0 when the ticker is already open, when
\* 5 positions are open, when the available exposure is below the minimum
\* order notional and when the computed size is below it; the call changes
\* neither the table of positions nor the state file.
C19_Rejects == (sz.pc = "done" /\ sz_rejects) => sz.result = 0

C19_ReadOnlyStep == sz' # sz => (positions' = positions /\ file' = file)

C19_SizingRejects == [] C19_Rejects /\ [][C19_ReadOnlyStep]_vars

C19_Witness ==
    /\ sz.pc = "done"
    /\ sz.ticker \in DOMAIN positions
    /\ Cardinality(DOMAIN positions) < 5
    /\ sz_available100 >= 5000 * 100
    /\ sz_min >= 5000 * 10000 * sz_pct[1]
    /\ sz.result = 0

\* C20 as stated: a result that is not a rejection is the minimum of the
\* three amounts rounded to a whole unit, is at least the minimum order
\* notional, and exceeds neither the single-position cap nor the available
\* exposure.
C20_SizeWithinCaps ==
    (sz.pc = "done" /\ ~sz_rejects) =>
       /\ 2 * (sz.result * Scale(sz_pct) - sz_min) <= Scale(sz_pct)
       /\ 2 * (sz_min - sz.result * Scale(sz_pct)) <= Scale(sz_pct)
       /\ sz.result >= 5000
       /\ sz.result * 100 <= sz_cap100
       /\ sz.result * 100 <= sz_available100

\* C20, amended: a result that is not a rejection is the minimum of the
\* three amounts rounded to the nearest whole unit, is at least the minimum
\* order notional, and exceeds neither the single-position cap nor the
\* available exposure by more than half a unit.
C20_SizeRounded ==
    (sz.pc = "done" /\ ~sz_rejects) =>
       /\ 2 * (sz.result * Scale(sz_pct) - sz_min) <= Scale(sz_pct)
       /\ 2 * (sz_min - sz.result * Scale(sz_pct)) <= Scale(sz_pct)
       /\ sz.result >= 5000
       /\ 2 * (sz.result * 100 - sz_cap100) <= 100
       /\ 2 * (sz.result * 100 - sz_available100) <= 100

C20_Witness ==
    /\ sz.pc = "done"
    /\ ~sz_rejects
    /\ sz.combined_confidence = 75
    /\ sz.total_portfolio_krw = 40000
    /\ sz.result = 6000
    /\ sz.result * 100 < sz_cap100
    /\ sz.result * 100 < sz_available100

\* the rows of the scoring table that the indicator values of the finished
\* compute_entry_score call select, per category
row_ema ==
    LET i == fn.arg
    IN  IF i.ema9 > i.ema21 /\ i.ema21 > i.ema50 THEN 25
        ELSE IF i.ema9 > i.ema21 THEN 10 ELSE 0
row_macd ==
    LET i == fn.arg
    IN  IF i.hist_prev <= 0 /\ i.hist_now > 0 THEN 20
        ELSE IF i.hist_now > 0 /\ i.hist_now > i.hist_prev THEN 15
        ELSE IF i.hist_prev2 < i.hist_prev /\ i.hist_prev < i.hist_now THEN 8 ELSE 0
row_rsi ==
    LET i == fn.arg
    IN  IF i.rsi = NaN THEN 0
        ELSE IF 35 <= i.rsi /\ i.rsi <= 65 THEN 15
        ELSE IF i.rsi < 35 THEN 8 ELSE 0
row_adx ==
    LET i == fn.arg
    IN  IF i.adx = NaN THEN 0
        ELSE IF i.adx > 20 THEN 15
        ELSE IF i.adx > 15 THEN 7 ELSE 0
row_bb == IF fn.arg.bb_mid # NaN /\ fn.arg.close > fn.arg.bb_mid THEN 10 ELSE 0
row_volume ==
    IF fn.arg.vol_avg > 0 /\ 2 * fn.arg.vol_now >= 3 * fn.arg.vol_avg THEN 10 ELSE 0
row_candle == IF fn.arg.close > fn.arg.open THEN 5 ELSE 0

\* C21: the entry score is the sum of one row per category of the scoring
\* table (the first that matches, or 0), so it is within 0..100 with no
\* category above 25, 20, 15, 15, 10, 10, 5; the top rows sum to 100; and
\* entry_recommended is true exactly when the score is at least 70.
C21_ScoreIsTableSum ==
    (fn.name = "compute_entry_score" /\ ~fn.result.raised) =>
       /\ fn.result.score = row_ema + row_macd + row_rsi + row_adx + row_bb
                            + row_volume + row_candle
       /\ fn.result.score \in 0..100
       /\ (row_ema = 25 /\ row_macd = 20 /\ row_rsi = 15 /\ row_adx = 15
           /\ row_bb = 10 /\ row_volume = 10 /\ row_candle = 5)
             => fn.result.score = 100
       /\ fn.result.entry_recommended <=> fn.result.score >= 70

C21_Witness ==
    /\ fn.name = "compute_entry_score"
    /\ fn.arg.hist_now > 0
    /\ fn.arg.hist_prev <= 0
    /\ fn.result.score = 100
    /\ fn.result.entry_recommended

\* the finished scan_market_leaders call: its leaders, the place of a
\* ticker in the scan, and the candidates of the ranking
leaders == fn.result
ScanPlace(t) == CHOOSE k \in 1..Len(ScanOrder) : ScanOrder[k] = t
Composite(t) ==
    LET m == fn.arg[t]
    IN  35 * (IF m.ratio >= 30 THEN 100 ELSE (m.ratio * 10) \div 3)
        + 30 * m.mom + 20 * m.rs + 15 * m.liq
Ranked ==
    {t \in DOMAIN fn.arg : /\ t \notin {"KRW-USDT", "KRW-USDC", "KRW-DAI"}
                           /\ fn.arg[t].ohlcv
                           /\ fn.arg[t].ratio >= 15}
Returned == {leaders[k].ticker : k \in 1..Len(leaders)}

\* C22: scan_market_leaders returns at most 5 candidates, by composite_score
\* descending, equal scores in scan order; a candidate left out has a
\* composite_score no greater than that of any candidate returned.
C22_TopNStableDescending ==
    fn.name = "scan_market_leaders" =>
       /\ Len(leaders) <= 5
       /\ Cardinality(Returned) = Len(leaders)
       /\ Returned \subseteq Ranked
       /\ Cardinality(Ranked) <= 5 => Returned = Ranked
       /\ Cardinality(Ranked) >= 5 => Len(leaders) = 5
       /\ \A k \in 1..Len(leaders) :
             leaders[k].composite_score = Composite(leaders[k].ticker)
       /\ \A j, k \in 1..Len(leaders) :
             j < k => \/ leaders[j].composite_score > leaders[k].composite_score
                      \/ /\ leaders[j].composite_score = leaders[k].composite_score
                         /\ ScanPlace(leaders[j].ticker) < ScanPlace(leaders[k].ticker)
       /\ \A t \in Ranked \ Returned : \A k \in 1..Len(leaders) :
             Composite(t) <= leaders[k].composite_score

C22_Witness ==
    /\ fn.name = "scan_market_leaders"
    /\ Cardinality(Ranked) = 6
    /\ Len(leaders) = 5
    /\ leaders[1].composite_score > leaders[2].composite_score
    /\ leaders[2].composite_score = leaders[3].composite_score
    /\ leaders[4].composite_score > leaders[5].composite_score
    /\ \E t \in Ranked \ Returned : Composite(t) = leaders[5].composite_score

\* C23: no leader has a surge ratio below 1.5, is an excluded stable-asset
\* pair or has no OHLCV series, whatever its other scores are.
C23_DroppedBeforeRanking ==
    fn.name = "scan_market_leaders" =>
       \A k \in 1..Len(leaders) :
          /\ leaders[k].volume_ratio >= 15
          /\ fn.arg[leaders[k].ticker].ratio >= 15
          /\ leaders[k].ticker \notin {"KRW-USDT", "KRW-USDC", "KRW-DAI"}
          /\ fn.arg[leaders[k].ticker].ohlcv

C23_Witness ==
    /\ fn.name = "scan_market_leaders"
    /\ Len(leaders) = 2
    /\ \E t \in DOMAIN fn.arg \ Returned :
          /\ fn.arg[t].ohlcv
          /\ fn.arg[t].ratio = 12
          /\ \A k \in 1..Len(leaders) : Composite(t) > leaders[k].composite_score
    /\ \E t \in DOMAIN fn.arg \ Returned : ~fn.arg[t].ohlcv

\* C24: a position without a price in the tick's batch is left as it is for
\* that tick: its fields (peak_price, trailing_active) do not change, no
\* sell is submitted for it and it stays open, while the tick goes on with
\* the other positions.
C24_SkippedUntouched ==
    \A t \in DOMAIN mon_log.skipped :
       /\ has_position(t)
       /\ positions[t] = mon_log.skipped[t]
       /\ mon_log.sell.ticker # t
       /\ mon_log.summary.ticker # t
       /\ mon_pc \in {"loop", "sell", "save_data", "save_open", "save_write"}

C24_Witness ==
    /\ mon_pc = "sell"
    /\ mon_log.skipped # EmptyTable
    /\ \E t \in DOMAIN mon_log.skipped :
          /\ positions[t].trailing_active
          /\ positions[t].peak_price > positions[t].entry_price

\* C25: on a triggered exit the monitor calls sell_fn with the ticker, the
\* quantity of the position and the observed price before it closes the
\* position; the exit price of the summary is the price sell_fn returned,
\* or the observed price when it returned none; a ticker leaves the open
\* set only in a step that follows the sell_fn call for it.
C25_SellBeforeClose ==
    /\ mon_pc = "sell" =>
          /\ has_position(mon_cur)
          /\ mon_log.sell = [ticker |-> mon_cur,
                             quantity |-> positions[mon_cur].quantity,
                             current_price |-> mon_price]
          /\ mon_log.summary = NoSummary
    /\ mon_log.summary # NoSummary =>
          /\ mon_log.summary.ticker = mon_log.sell.ticker
          /\ mon_log.summary.exit_price =
                IF mon_exit_price # NoPrice THEN mon_exit_price
                ELSE mon_log.sell.current_price

C25_CloseStep ==
    Restart \/ \A t \in DOMAIN positions \ DOMAIN positions' :
                  /\ mon_pc = "sell"
                  /\ mon_log.sell.ticker = t
                  /\ mon_log'.summary.ticker = t
                  /\ mon_log'.sell = mon_log.sell

C25_SellThenClose == [] C25_SellBeforeClose /\ [][C25_CloseStep]_vars

C25_Witness ==
    /\ mon_pc = "save_data"
    /\ mon_log.summary.reason = "trailing-stop"
    /\ mon_exit_price # NoPrice
    /\ mon_log.summary.exit_price = mon_exit_price
    /\ mon_log.sell.quantity = 550
    /\ ~has_position(mon_log.summary.ticker)

\* C27: open_position and then close_position of a ticker remove it from
\* the open set and return a summary whose pnl_rate is exactly
\* exit_price / entry_price - 1 (pnl_rate of the model is in hundredths).
C27_PnlRateExact ==
    mon_log.summary # NoSummary =>
       mon_log.summary.pnl_rate * mon_log.summary.entry_price
          = 100 * (mon_log.summary.exit_price - mon_log.summary.entry_price)

\* C26: in the scan a ticker enters the open set only when the buy for it
\* returned success, with entry_price, quantity and invested_krw of that
\* order result; a failed buy adds nothing, leaves the budget of the scan
\* as it was, and the scan goes on with the next candidate.
C26_OpenStep ==
    /\ \A t \in DOMAIN positions' \ DOMAIN positions :
          /\ sc.pc = "buy"
          /\ sc.order.ticker = t
          /\ sc'.result.success
          /\ sc'.result.ticker = t
          /\ sc'.result.side = "buy"
          /\ positions'[t].entry_price = sc'.result.price
          /\ positions'[t].quantity = sc'.result.quantity
          /\ positions'[t].invested_krw = sc'.result.amount_krw
    /\ (sc.pc = "buy" /\ sc'.pc # "buy" /\ ~sc'.result.success) =>
          /\ positions' = positions
          /\ sc'.krw_balance = sc.krw_balance
          /\ sc'.entered = sc.entered
          /\ sc'.pc = "loop"
          /\ sc'.leaders = Tail(sc.leaders)

C26_BuyThenOpen == [][C26_OpenStep]_vars

C26_Witness ==
    /\ sc.pc = "loop"
    /\ sc.result.success
    /\ sc.result.ticker \in DOMAIN positions
    /\ positions[sc.result.ticker].invested_krw = 7500
    /\ sc.krw_balance = 42500
    /\ sc.leaders # << >>

\* C29: once the stop signal is set no further buy is submitted within the
\* running scan tick (and no new scan and no new monitor tick starts).
C29_BuyStep == (sc.pc = "loop" /\ sc'.pc = "buy") => ~stop_event

C29_NoBuyAfterStop == [][C29_BuyStep]_vars

\* C28: loading what _save wrote in a fresh PositionManager gives the same
\* tickers with the same value of every Position field, peak_price and
\* trailing_active included; a missing file and an unreadable file give the
\* empty set, and _load raises in no case.
C28_RoundTrip ==
    fn.name = "_load" =>
       /\ \A table \in StoreTables : fn.arg = save(table) => fn.result = table
       /\ fn.arg.state \in {"missing", "invalid"} => fn.result = EmptyTable

C28_Witness ==
    /\ fn.name = "_load"
    /\ fn.arg.state = "ok"
    /\ DOMAIN fn.result = Tickers
    /\ fn.result["KRW-BTC"].trailing_active
    /\ fn.result["KRW-BTC"].peak_price = 12
    /\ ~fn.result["KRW-ETH"].trailing_active

\* C30: at shutdown the process does not exit while the monitor is between
\* a sell submission and the matching close_position or inside a write of
\* the state file.
C30_ShutdownStep ==
    (scan_pc' = "exit_stopped" /\ scan_pc # "exit_stopped") =>
        mon_pc \notin {"sell"} \cup SaveStates

C30_MonitorNotCutOff == [][C30_ShutdownStep]_vars

\* C31: with a stop-loss rate outside (-1, 0), MAX_CONCURRENT_POSITIONS
\* below 1 or a missing key in live mode the start aborts before the
\* monitor is started, before any scan and before any order.
invalid_config(c) ==
    \/ ~(-100 < c.STOP_LOSS_RATE /\ c.STOP_LOSS_RATE < 0)
    \/ c.MAX_CONCURRENT_POSITIONS < 1
    \/ ~c.DRY_RUN /\ ~(c.UPBIT_ACCESS_KEY /\ c.UPBIT_SECRET_KEY)

C31_NothingStarted ==
    (boot.pc # "-" /\ invalid_config(boot.config)) =>
        /\ boot.pc \in {"import", "main", "aborted"}
        /\ ~boot.monitor_started
        /\ boot.scans = 0
        /\ boot.orders = 0

C31_AbortStep ==
    (boot.pc = "main" /\ invalid_config(boot.config) /\ boot' # boot) =>
        boot'.pc = "aborted"

C31_InvalidConfigAborts == [] C31_NothingStarted /\ [][C31_AbortStep]_vars

C31_Witness ==
    /\ boot.pc = "aborted"
    /\ boot.config.DRY_RUN
    /\ boot.config.STOP_LOSS_RATE = 0
    /\ boot.config.MAX_CONCURRENT_POSITIONS = 5

\* C32: in every interleaving of the scan and the monitor the scan submits
\* no buy for a ticker that is open at the time of the buy, and
\* open_position never replaces an open position; the open set, a dict
\* keyed by ticker, has one position per ticker.
C32_NotHeldWhileBuying ==
    scan_pc = "buy" => scan_order.ticker \notin DOMAIN positions

C32_OpenStep ==
    /\ (scan_pc # "buy" /\ scan_pc' = "buy") => scan_order'.ticker \notin DOMAIN positions
    /\ (scan_pc = "buy" /\ scan_pc' = "save_data") =>
          /\ scan_order.ticker \notin DOMAIN positions
          /\ DOMAIN positions' = DOMAIN positions \cup {scan_order.ticker}
          /\ \A t \in DOMAIN positions : positions'[t] = positions[t]

C32_OnePositionPerTicker == [] C32_NotHeldWhileBuying /\ [][C32_OpenStep]_vars

C32_Witness ==
    /\ scan_pc = "save_data"
    /\ scan_order.ticker = "KRW-ETH"
    /\ DOMAIN positions = Tickers
    /\ mon_pc = "sell"
    /\ mon_cur = "KRW-BTC"

\* C34: starting with at most MAX_CONCURRENT_POSITIONS restored positions,
\* the number of open positions never exceeds MAX_CONCURRENT_POSITIONS in
\* any interleaving of scans and monitor ticks, however long a buy takes
\* between the test of the limit and open_position.
C34_CountWithinLimit == Cardinality(DOMAIN positions) <= MAX_CONCURRENT_POSITIONS

C34_Witness ==
    /\ scan_pc = "save_data"
    /\ scan_order.ticker = "KRW-DOGE"
    /\ Cardinality(DOMAIN positions) = MAX_CONCURRENT_POSITIONS
    /\ "KRW-BTC" \notin DOMAIN positions
    /\ mon_pc = "sell"
    /\ mon_cur = "KRW-ETH"

C35_WithinRatios ==
    /\ 100 * total_invested(positions) <= CapTotal * MAX_INVESTED_RATIO
    /\ \A t \in DOMAIN positions :
          100 * positions[t].invested_krw <= CapTotal * MAX_SINGLE_POSITION_RATIO

\* C35 (amended): with a constant total portfolio value, after any scans
\* and exits the sum of invested_krw exceeds total_portfolio *
\* MAX_INVESTED_RATIO by no more than half a unit, and so does the
\* invested_krw of a position with total_portfolio *
\* MAX_SINGLE_POSITION_RATIO: the sizes are rounded to whole units.
C35_WithinRoundedRatios ==
    /\ 100 * total_invested(positions) <= CapTotal * MAX_INVESTED_RATIO + 50
    /\ \A t \in DOMAIN positions :
          100 * positions[t].invested_krw <= CapTotal * MAX_SINGLE_POSITION_RATIO + 50

C35_Witness ==
    /\ Cardinality(DOMAIN positions) = 5
    /\ total_invested(positions) = 32002
    /\ sc.pc = "loop"
    /\ sc.result.success
    /\ sc.result.amount_krw = 6002

\* C36: for a position opened with open_position and driven by any
\* sequence of check_exit calls, trailing_active implies
\* peak_price >= entry_price * (1 + TRAILING_ACTIVATION_RATE).
C36_ActiveAbovePeakLevel ==
    fn.name \in {"open_position", "check_exit"} =>
       (fn.result.pos.trailing_active =>
           fn.result.pos.peak_price * 100
              >= fn.result.pos.entry_price * (100 + TRAILING_ACTIVATION_RATE))

C36_Witness ==
    /\ fn.name = "check_exit"
    /\ fn.result.pos.entry_price = 100
    /\ fn.result.pos.trailing_active
    /\ fn.result.pos.peak_price = 105
    /\ fn.arg.pos.trailing_active
    /\ fn.arg.current_price = 95

\* C37: within one scan tick krw_balance is lowered by the notional of
\* every successful buy and never becomes negative: a buy is at most 95% of
\* what is left, so the notional bought in the tick stays below the balance
\* read at its start.
C37_BudgetLeft ==
    sc.pc \in {"loop", "buy"} =>
       /\ sc.krw_balance > 0
       /\ sc.krw_balance <= sc.start_balance
       /\ sc.pc = "buy" => 100 * sc.order.amount_krw <= 95 * sc.krw_balance

C37_BuyStep ==
    (sc.pc = "buy" /\ sc'.pc = "loop" /\ sc'.result.success) =>
       /\ sc'.krw_balance = sc.krw_balance - sc'.result.amount_krw
       /\ sc'.start_balance = sc.start_balance
       /\ sc.start_balance - sc'.krw_balance < sc.start_balance

C37_BudgetNeverNegative == [] C37_BudgetLeft /\ [][C37_BuyStep]_vars

C37_Witness ==
    /\ sc.pc = "loop"
    /\ sc.start_balance = 6000
    /\ sc.krw_balance = 300
    /\ sc.entered = 1
    /\ sc.leaders # << >>

====
